---- MODULE Spec2Model ----
(***************************************************************************)
(* A model of deepseek-engineer (src/deepseek-eng-new.py): the snippet     *)
(* editor, the context store and its truncation, the tool-call assembler,  *)
(* the tool dispatcher and the conversation driver.                        *)
(*                                                                         *)
(* Texts are sequences of characters (one-character tokens), file paths    *)
(* are sequences of path parts, and an exception raised by a Python        *)
(* function is the field exc of the record the operator returns.           *)
(***************************************************************************)
EXTENDS Integers, Sequences, FiniteSets, TLC

VARIABLES
    conversation_history,   \* the list conversation_history (src l.1009)
    files,                  \* the filesystem: path -> [exists, data]
    git_context,            \* the dict git_context (src l.49)
    git_repo,               \* the git executable and the repository in cwd
    os_linesep,             \* the platform's os.linesep, fixed per run
    pc,                     \* position of main_loop in its iteration
    full_response_content,  \* local of main_loop (src l.1046)
    accumulated_tool_calls, \* local of main_loop (src l.1047)
    valid_tool_calls,       \* local of main_loop (src l.1079)
    tool_idx,               \* position of the for loop of src l.1088
    delivered,              \* the fragments the stream has delivered this turn
    last_output,            \* the text the last dispatched call returned
    turns,                  \* the number of user inputs sent to the model
    request,                \* the arguments of the operation under study; in the
                            \* driver, the messages of the turn's model request
    before,                 \* snapshot taken when the operation under study starts
    file_history            \* the list file_history of main.py (src/main.py l.86)

vars == <<conversation_history, files, git_context, git_repo, os_linesep, pc,
          full_response_content, accumulated_tool_calls, valid_tool_calls,
          tool_idx, delivered, last_output, turns, request, before,
          file_history>>

(***************************************************************************)
(* Bounds of the model.                                                    *)
(***************************************************************************)
\* longest file content, in characters, that Init puts on disk
MaxContentLen == 3
\* longest original_snippet drawn
MaxSnippetLen == 2
\* longest new_snippet drawn
MaxNewLen == 1
\* user inputs the driver sends to the model in one run
MaxTurns == 2
\* chunks of one streamed reply in the driver
MaxChunks == 2
\* tool-call fragments of one streamed reply when the assembler is studied
MaxStreamChunks == 3
\* the longest history (after the system prompt) given to truncation alone
MaxHistoryLen == 4
\* the largest budget given to truncation alone
MaxBudget == 4
\* MAX_FILES_IN_ADD_DIR (src l.41) is 1000; the model scales it down, keeping
\* it above max_context_files
MAX_FILES_IN_ADD_DIR == 6
\* MAX_FILE_SIZE_IN_ADD_DIR (src l.42) is 5_000_000; the model scales it down
MAX_FILE_SIZE_IN_ADD_DIR == 2
\* MAX_HISTORY_MESSAGES (50 in src l.1104) scaled to the runs of the model,
\* so that truncation happens within MaxTurns turns
MAX_HISTORY_MESSAGES == 6
\* MAX_FILE_CONTENT_SIZE_CREATE (5_000_000 in src l.43) scaled to the texts
\* of the model, so that the size rejection of create_file can happen
MAX_FILE_CONTENT_SIZE_CREATE == 3

(***************************************************************************)
(* Texts.                                                                  *)
(***************************************************************************)
Chars == {"a", "CR", "LF"}

RECURSIVE SeqsUpTo(_, _)
SeqsUpTo(S, n) ==
    IF n = 0 THEN {<<>>}
    ELSE LET shorter == SeqsUpTo(S, n - 1)
         IN  shorter \cup {Append(s, c) : s \in shorter, c \in S}

\* text-mode reading with newline=None: "\r\n" and a lone "\r" become "\n"
RECURSIVE ReadTranslate(_)
ReadTranslate(data) ==
    IF data = <<>> THEN <<>>
    ELSE IF Head(data) = "CR"
         THEN IF Len(data) >= 2 /\ data[2] = "LF"
              THEN <<"LF">> \o ReadTranslate(SubSeq(data, 3, Len(data)))
              ELSE <<"LF">> \o ReadTranslate(Tail(data))
         ELSE <<Head(data)>> \o ReadTranslate(Tail(data))

\* text-mode writing with newline=None: every "\n" becomes os.linesep
RECURSIVE WriteTranslate(_, _)
WriteTranslate(text, linesep) ==
    IF text = <<>> THEN <<>>
    ELSE (IF Head(text) = "LF" THEN linesep ELSE <<Head(text)>>)
         \o WriteTranslate(Tail(text), linesep)

\* str.count: the number of non-overlapping occurrences, scanning left to right
RECURSIVE CountFrom(_, _, _)
CountFrom(s, sub, i) ==
    IF i + Len(sub) - 1 > Len(s) THEN 0
    ELSE IF SubSeq(s, i, i + Len(sub) - 1) = sub
         THEN 1 + CountFrom(s, sub, i + Len(sub))
         ELSE CountFrom(s, sub, i + 1)

StrCount(s, sub) ==
    IF sub = <<>> THEN Len(s) + 1 ELSE CountFrom(s, sub, 1)

\* str.find, 1-based; 0 when sub does not occur
StrFind(s, sub) ==
    LET hits == {i \in 1..(Len(s) + 1) :
                    /\ i + Len(sub) - 1 <= Len(s)
                    /\ SubSeq(s, i, i + Len(sub) - 1) = sub}
    IN  IF hits = {} THEN 0 ELSE CHOOSE i \in hits : \A j \in hits : i <= j

\* s.replace(sub, new, 1)
StrReplaceFirst(s, sub, new) ==
    LET i == StrFind(s, sub)
    IN  IF i = 0 THEN s
        ELSE SubSeq(s, 1, i - 1) \o new \o SubSeq(s, i + Len(sub), Len(s))

(***************************************************************************)
(* The filesystem and the helper functions on it.                          *)
(***************************************************************************)
\* base_dir (src l.36), the directory relative paths are resolved against
BaseDir == <<"/", "w">>

\* the path strings the model lets a caller pass
RawPaths == {<<"a.txt">>, <<"/", "w", "a.txt">>, <<"~b.txt">>}

\* normalize_path: an absolute path as it is, a relative one under base_dir
normalize_path(path) ==
    IF path # <<>> /\ Head(path) = "/" THEN path ELSE BaseDir \o path

PathA == <<"/", "w", "a.txt">>
PathTilde == <<"/", "w", "~b.txt">>
Paths == {normalize_path(p) : p \in RawPaths}

Absent == [exists |-> FALSE, dir |-> FALSE, data |-> <<>>]

FileOf(data) == [exists |-> TRUE, dir |-> FALSE, data |-> data]

Directory == [exists |-> TRUE, dir |-> TRUE, data |-> <<>>]

\* Path(...).parent.mkdir(parents=True, exist_ok=True) for the directories the
\* filesystem of the model holds
mkdir_parent(fs, path) ==
    LET parent == SubSeq(path, 1, Len(path) - 1)
    IN  IF path # <<>> /\ parent \in DOMAIN fs /\ ~fs[parent].exists
        THEN [fs EXCEPT ![parent] = Directory]
        ELSE fs

\* part.startswith('~') for the parts the model uses
StartsWithTilde(part) == part \in {"~", "~b.txt", "~x"}

\* read_local_file: open(..., "r", encoding="utf-8").read()
read_local_file(fs, path) ==
    IF ~fs[path].exists
    THEN [exc |-> "FileNotFoundError", text |-> <<>>]
    ELSE [exc |-> "none", text |-> ReadTranslate(fs[path].data)]

\* stage_file: returns whether the file was staged; stage_rc is the outcome
\* of the staging attempt: "ok" when `git add` returns 0, anything else when
\* it returns another code or the attempt raises (file outside the
\* repository, no git executable)
stage_file(gc, repo, path, stage_rc) ==
    IF ~gc.enabled \/ gc.skip_staging THEN [staged |-> FALSE, repo |-> repo]
    ELSE IF stage_rc = "ok" /\ repo.installed /\ repo.repo
         THEN [staged |-> TRUE,
               repo |-> [repo EXCEPT !.staged = @ \cup {path}]]
         ELSE [staged |-> FALSE, repo |-> repo]

\* a create_file that takes a failed staging for a failed write
create_file_undone_unless_staged(fs, gc, repo, linesep, path, content, stage_rc) ==
    IF \E k \in 1..Len(path) : StartsWithTilde(path[k])
    THEN [exc |-> "ValueError", fs |-> fs, repo |-> repo]
    ELSE IF Len(content) > MAX_FILE_CONTENT_SIZE_CREATE
    THEN [exc |-> "ValueError", fs |-> fs, repo |-> repo]
    ELSE LET normalized_path_str == normalize_path(path)
             written == [mkdir_parent(fs, normalized_path_str)
                             EXCEPT ![normalized_path_str] =
                                      FileOf(WriteTranslate(content, linesep))]
             staging == IF gc.enabled /\ ~gc.skip_staging
                        THEN stage_file(gc, repo, normalized_path_str, stage_rc)
                        ELSE [staged |-> TRUE, repo |-> repo]
         IN  IF staging.staged
             THEN [exc |-> "none", fs |-> written, repo |-> staging.repo]
             ELSE [exc |-> "OSError", fs |-> fs, repo |-> repo]

\* create_file: the two rejections, then the write, then the staging
create_file(fs, gc, repo, linesep, path, content, stage_rc) ==
    IF \E k \in 1..Len(path) : StartsWithTilde(path[k])
    THEN [exc |-> "ValueError", fs |-> fs, repo |-> repo]
    ELSE IF Len(content) > MAX_FILE_CONTENT_SIZE_CREATE
    THEN [exc |-> "ValueError", fs |-> fs, repo |-> repo]
    ELSE LET normalized_path_str == normalize_path(path)
             written == [mkdir_parent(fs, normalized_path_str)
                             EXCEPT ![normalized_path_str] =
                                      FileOf(WriteTranslate(content, linesep))]
             staging == IF gc.enabled /\ ~gc.skip_staging
                        THEN stage_file(gc, repo, normalized_path_str, stage_rc)
                        ELSE [staged |-> FALSE, repo |-> repo]
         IN  [exc |-> "none", fs |-> written, repo |-> staging.repo]

\* apply_diff_edit: outcome is what the console reports; FileNotFoundError
\* and ValueError are caught inside, nothing else is raised by the model
apply_diff_edit(fs, gc, repo, linesep, path, original_snippet, new_snippet, stage_rc) ==
    LET normalized_path_str == normalize_path(path)
        rd == read_local_file(fs, normalized_path_str)
        occurrences == StrCount(rd.text, original_snippet)
        updated_content == StrReplaceFirst(rd.text, original_snippet, new_snippet)
        cr == create_file(fs, gc, repo, linesep, normalized_path_str,
                          updated_content, stage_rc)
    IN  IF rd.exc = "FileNotFoundError"
        THEN [outcome |-> "file_not_found", fs |-> fs, repo |-> repo]
        ELSE IF occurrences = 0
        THEN [outcome |-> "snippet_not_found", fs |-> fs, repo |-> repo]
        ELSE IF occurrences > 1
        THEN [outcome |-> "ambiguous_edit", fs |-> fs, repo |-> repo]
        ELSE IF cr.exc = "ValueError"
        THEN [outcome |-> "create_rejected", fs |-> fs, repo |-> repo]
        ELSE [outcome |-> "applied", fs |-> cr.fs, repo |-> cr.repo]

(***************************************************************************)
(* The context store: entries and truncation.                              *)
(***************************************************************************)
\* file_contexts[-3:] of smart_truncate_history
KEEP_FILE_CONTEXTS == 3

Entry(role, content, tool_calls, tool_call_id, name) ==
    [role |-> role, content |-> content, tool_calls |-> tool_calls,
     tool_call_id |-> tool_call_id, name |-> name]

SystemPrompt == Entry("system", <<"system_PROMPT">>, <<>>, <<>>, "")

\* sub in s, for texts
Contains(s, sub) == StrFind(s, sub) # 0

\* f"User added file '{file_path}'"
Marker(file_path) == <<"User added file", "'">> \o file_path \o <<"'">>

\* "User added file" in msg["content"]
ContainsUserAddedFile(msg) == Contains(msg.content, <<"User added file">>)

\* seq[-n:]
LastN(seq, n) ==
    IF n <= 0 THEN seq \* seq[-0:] is the whole list
    ELSE IF Len(seq) <= n THEN seq ELSE SubSeq(seq, Len(seq) - n + 1, Len(seq))

\* a slice that keeps the head of the list instead of its tail
DropLast(seq, n) ==
    IF n >= Len(seq) THEN <<>> ELSE SubSeq(seq, 1, Len(seq) - n)

\* seq[n:]
DropFirst(seq, n) ==
    IF n >= Len(seq) THEN <<>> ELSE SubSeq(seq, n + 1, Len(seq))

IsSystem(msg) == msg.role = "system"

IsNotSystem(msg) == msg.role # "system"

\* a truncation that keeps the oldest file contexts instead of the latest
ImportantSystemOldest(system_messages) ==
    IF Len(system_messages) > 1
    THEN <<system_messages[1]>>
         \o SubSeq(SelectSeq(Tail(system_messages), ContainsUserAddedFile), 1,
                   IF Len(SelectSeq(Tail(system_messages), ContainsUserAddedFile))
                          < KEEP_FILE_CONTEXTS
                   THEN Len(SelectSeq(Tail(system_messages), ContainsUserAddedFile))
                   ELSE KEEP_FILE_CONTEXTS)
    ELSE system_messages

\* the system messages smart_truncate_history keeps (src l.283-288)
ImportantSystem(system_messages) ==
    IF Len(system_messages) > 1
    THEN <<system_messages[1]>>
         \o LastN(SelectSeq(Tail(system_messages), ContainsUserAddedFile),
                  KEEP_FILE_CONTEXTS)
    ELSE system_messages

\* the first index of the run of tool entries that ends at index i
RECURSIVE ToolRunStart(_, _)
ToolRunStart(other_messages, i) ==
    IF i >= 1 /\ other_messages[i].role = "tool"
    THEN ToolRunStart(other_messages, i - 1)
    ELSE i + 1

\* the while loop of src l.295-316; i is 1-based, 0 when the list is used up
RECURSIVE KeepLoop(_, _, _, _)
KeepLoop(other_messages, i, keep_messages, messages_to_keep) ==
    IF ~(i >= 1 /\ Len(keep_messages) < messages_to_keep)
    THEN keep_messages
    ELSE IF other_messages[i].role = "tool"
    THEN LET start == ToolRunStart(other_messages, i)
             tool_sequence == SubSeq(other_messages, start, i)
             kept == tool_sequence \o keep_messages
             j == start - 1
         IN  IF j >= 1 /\ other_messages[j].role = "assistant"
                       /\ other_messages[j].tool_calls # <<>>
             THEN KeepLoop(other_messages, j - 1,
                           <<other_messages[j]>> \o kept, messages_to_keep)
             ELSE KeepLoop(other_messages, j, kept, messages_to_keep)
    ELSE KeepLoop(other_messages, i - 1,
                  <<other_messages[i]>> \o keep_messages, messages_to_keep)

\* keep_messages before the final safety check
KeepMessages(history, max_messages) ==
    LET system_messages == ImportantSystem(SelectSeq(history, IsSystem))
        other_messages == SelectSeq(history, IsNotSystem)
    IN  KeepLoop(other_messages, Len(other_messages), <<>>,
                 max_messages - Len(system_messages))

\* a truncation without the final safety check
FinalTrimNone(system_messages, keep_messages, max_messages) ==
    system_messages \o keep_messages

\* the final safety check of src l.321-326
FinalTrim(system_messages, keep_messages, max_messages) ==
    IF Len(system_messages) + Len(keep_messages) > max_messages
    THEN system_messages
         \o DropFirst(keep_messages,
                      Len(system_messages) + Len(keep_messages) - max_messages)
    ELSE system_messages \o keep_messages

\* a truncation that also rebuilds a history exactly as long as the budget
smart_truncate_history_at_budget(history, max_messages) ==
    IF Len(history) < max_messages THEN history
    ELSE FinalTrim(ImportantSystem(SelectSeq(history, IsSystem)),
                   KeepMessages(history, max_messages), max_messages)

smart_truncate_history(history, max_messages) ==
    IF Len(history) <= max_messages THEN history
    ELSE FinalTrim(ImportantSystem(SelectSeq(history, IsSystem)),
                   KeepMessages(history, max_messages), max_messages)

\* max_context_files of add_file_context_smartly
MAX_CONTEXT_FILES == 5

\* the loop of src l.390-396: skip the first to_remove file contexts
RECURSIVE EvictOldest(_, _)
EvictOldest(history, to_remove) ==
    IF history = <<>> THEN <<>>
    ELSE IF IsSystem(Head(history)) /\ ContainsUserAddedFile(Head(history))
            /\ to_remove > 0
         THEN EvictOldest(Tail(history), to_remove - 1)
         ELSE <<Head(history)>> \o EvictOldest(Tail(history), to_remove)

\* an addition that does not remove the earlier context of the same file
add_file_context_keeping_duplicates(history, file_path, content) ==
    LET IsFileContext(msg) == IsSystem(msg) /\ ContainsUserAddedFile(msg)
        file_context_count == Len(SelectSeq(history, IsFileContext))
        evicted == IF file_context_count >= MAX_CONTEXT_FILES
                   THEN EvictOldest(history,
                                    file_context_count - MAX_CONTEXT_FILES + 1)
                   ELSE history
    IN  Append(evicted,
               Entry("system", Marker(file_path) \o <<". Content:">> \o content,
                     <<>>, <<>>, ""))

add_file_context_smartly(history, file_path, content) ==
    LET marker == Marker(file_path)
        NotThisFile(msg) == ~(IsSystem(msg) /\ Contains(msg.content, marker))
        IsFileContext(msg) == IsSystem(msg) /\ ContainsUserAddedFile(msg)
        deduped == SelectSeq(history, NotThisFile)
        file_context_count == Len(SelectSeq(deduped, IsFileContext))
        evicted == IF file_context_count >= MAX_CONTEXT_FILES
                   THEN EvictOldest(deduped,
                                    file_context_count - MAX_CONTEXT_FILES + 1)
                   ELSE deduped
    IN  Append(evicted,
               Entry("system", marker \o <<". Content:">> \o content, <<>>, <<>>, ""))

\* ensure_file_in_context: ok is the value returned
ensure_file_in_context(history, fs, file_path) ==
    LET normalized_path == normalize_path(file_path)
        rd == read_local_file(fs, normalized_path)
        marker == Marker(normalized_path)
        InContext(msg) == IsSystem(msg) /\ Contains(msg.content, marker)
    IN  IF rd.exc # "none" THEN [ok |-> FALSE, history |-> history]
        ELSE IF SelectSeq(history, InContext) # <<>>
        THEN [ok |-> TRUE, history |-> history]
        ELSE [ok |-> TRUE,
              history |-> add_file_context_smartly(history, normalized_path, rd.text)]

(***************************************************************************)
(* The tool-call assembler: JSON arguments, accumulation, validation.      *)
(*                                                                         *)
(* An arguments text is a sequence of JSON tokens: "{", "}", "0" (a        *)
(* number), or a member token standing for one "key": value pair together  *)
(* with its separating comma.                                              *)
(***************************************************************************)
MemberTokens == {"file_path:a.txt", "file_path:~b.txt", "content:a",
                 "original_snippet:a", "new_snippet:LF", "message:m",
                 "branch_name:dev", "file_paths:[a.txt,~b.txt]",
                 "files:[a.txt=a,~b.txt=a]"}

JsonTokens == {"{", "}", "0"} \cup MemberTokens

\* the key of a member token
MemberKey(tok) ==
    CASE tok \in {"file_path:a.txt", "file_path:~b.txt"} -> "file_path"
      [] tok = "content:a" -> "content"
      [] tok = "original_snippet:a" -> "original_snippet"
      [] tok = "new_snippet:LF" -> "new_snippet"
      [] tok = "message:m" -> "message"
      [] tok = "branch_name:dev" -> "branch_name"
      [] tok = "file_paths:[a.txt,~b.txt]" -> "file_paths"
      [] tok = "files:[a.txt=a,~b.txt=a]" -> "files"
      [] OTHER -> ""

\* the value of a member token: a path for file_path, a list of paths for
\* file_paths and files (whose contents are all "a"), a text otherwise
MemberValue(tok) ==
    CASE tok = "file_path:a.txt" -> <<"a.txt">>
      [] tok = "file_path:~b.txt" -> <<"~b.txt">>
      [] tok = "content:a" -> <<"a">>
      [] tok = "original_snippet:a" -> <<"a">>
      [] tok = "new_snippet:LF" -> <<"LF">>
      [] tok = "message:m" -> <<"m">>
      [] tok = "branch_name:dev" -> <<"dev">>
      [] tok = "file_paths:[a.txt,~b.txt]" -> << <<"a.txt">>, <<"~b.txt">> >>
      [] tok = "files:[a.txt=a,~b.txt=a]" -> << <<"a.txt">>, <<"~b.txt">> >>
      [] OTHER -> <<>>

\* json.loads: a number, or an object of members; anything else, the empty
\* text included, raises JSONDecodeError
json_loads(text) ==
    IF text = <<"0">>
    THEN [exc |-> "none", kind |-> "number", members |-> <<>>]
    ELSE IF /\ Len(text) >= 2
            /\ text[1] = "{"
            /\ text[Len(text)] = "}"
            /\ \A k \in 2..(Len(text) - 1) : text[k] \in MemberTokens
    THEN [exc |-> "none", kind |-> "object",
          members |-> SubSeq(text, 2, Len(text) - 1)]
    ELSE [exc |-> "JSONDecodeError", kind |-> "", members |-> <<>>]

\* a tool-call id is a tuple (<<turn, index>> in the driver), <<>> when empty
EmptyToolCall == [id |-> <<>>, name |-> "", arguments |-> <<>>]

\* the while loop of src l.1060-1061
RECURSIVE PadTo(_, _)
PadTo(calls, idx) ==
    IF Len(calls) <= idx THEN PadTo(Append(calls, EmptyToolCall), idx) ELSE calls

\* an assembler that keeps only the latest arguments fragment of a call
AccumulateLatestArguments(calls, chunk) ==
    LET padded == PadTo(calls, chunk.index)
        cur == padded[chunk.index + 1]
    IN  [padded EXCEPT ![chunk.index + 1] =
            [id |-> IF chunk.id # <<>> THEN chunk.id ELSE cur.id,
             name |-> IF chunk.name # "" THEN chunk.name ELSE cur.name,
             arguments |-> chunk.arguments]]

\* one tool_call_chunk merged into accumulated_tool_calls (src l.1059-1069)
Accumulate(calls, chunk) ==
    LET padded == PadTo(calls, chunk.index)
        cur == padded[chunk.index + 1]
    IN  [padded EXCEPT ![chunk.index + 1] =
            [id |-> IF chunk.id # <<>> THEN chunk.id ELSE cur.id,
             name |-> IF chunk.name # "" THEN chunk.name ELSE cur.name,
             arguments |-> cur.arguments \o chunk.arguments]]

\* a validation that does not parse the arguments
IsValidToolCallUnparsed(tool_call) ==
    tool_call.id # <<>> /\ tool_call.name # ""

\* the test validate_tool_calls applies to one accumulated call
IsValidToolCall(tool_call) ==
    /\ tool_call.id # <<>>
    /\ tool_call.name # ""
    /\ (tool_call.arguments # <<>> => json_loads(tool_call.arguments).exc = "none")

validate_tool_calls(calls) == SelectSeq(calls, IsValidToolCall)

(***************************************************************************)
(* The git tool handlers.  repo is the git collaborator; rc is the outcome *)
(* of the git subprocess the handler runs ("ok" or "failed").              *)
(***************************************************************************)
GitIgnorePath == <<"/", "w", ".gitignore">>

llm_git_init(gc, repo, rc) ==
    IF repo.repo
    THEN [out |-> <<"Git repository already exists.">>,
          gc |-> [gc EXCEPT !.enabled = TRUE], repo |-> repo]
    ELSE IF ~repo.installed
    THEN [out |-> <<"Failed to initialize Git repository:", "FileNotFoundError">>,
          gc |-> [gc EXCEPT !.enabled = FALSE], repo |-> repo]
    ELSE IF rc = "failed"
    THEN [out |-> <<"Failed to initialize Git repository:", "CalledProcessError">>,
          gc |-> gc, repo |-> repo]
    ELSE LET gc1 == [gc EXCEPT !.enabled = TRUE, !.branch = "main"]
             repo1 == [repo EXCEPT !.repo = TRUE, !.gitignore = TRUE]
         IN  [out |-> <<"Git repository initialized successfully in", "main">>,
              gc |-> gc1,
              repo |-> stage_file(gc1, repo1, GitIgnorePath, "ok").repo]

RECURSIVE StageAll(_, _, _, _)
StageAll(gc, repo, file_paths, rc) ==
    IF file_paths = <<>> THEN [repo |-> repo, staged_ok |-> <<>>, failed_stage |-> <<>>]
    ELSE LET norm_fp == normalize_path(Head(file_paths))
             st == stage_file(gc, repo, norm_fp, rc)
             rest == StageAll(gc, st.repo, Tail(file_paths), rc)
         IN  [repo |-> rest.repo,
              staged_ok |-> (IF st.staged THEN <<norm_fp[Len(norm_fp)]>> ELSE <<>>)
                            \o rest.staged_ok,
              failed_stage |-> (IF st.staged THEN <<>> ELSE <<norm_fp[Len(norm_fp)]>>)
                               \o rest.failed_stage]

llm_git_add(gc, repo, file_paths, rc) ==
    IF ~gc.enabled THEN [out |-> <<"Git not initialized.">>, gc |-> gc, repo |-> repo]
    ELSE IF file_paths = <<>>
    THEN [out |-> <<"No file paths to stage.">>, gc |-> gc, repo |-> repo]
    ELSE LET r == StageAll(gc, repo, file_paths, rc)
         IN  [out |-> (IF r.staged_ok # <<>> THEN <<"Staged:">> \o r.staged_ok ELSE <<>>)
                      \o (IF r.failed_stage # <<>>
                          THEN <<"Failed to stage:">> \o r.failed_stage ELSE <<>>),
              gc |-> gc, repo |-> r.repo]

\* a commit handler that goes to `git commit` without the staged check
llm_git_commit_unchecked(gc, repo, message, rc) ==
    IF ~gc.enabled THEN [out |-> <<"Git not initialized.">>, gc |-> gc, repo |-> repo]
    ELSE IF message = <<>>
    THEN [out |-> <<"Commit message empty.">>, gc |-> gc, repo |-> repo]
    ELSE IF ~repo.installed
    THEN [out |-> <<"Git commit error:", "FileNotFoundError">>,
          gc |-> [gc EXCEPT !.enabled = FALSE], repo |-> repo]
    ELSE IF rc = "ok" /\ repo.repo
    THEN [out |-> <<"Committed. Commit:">> \o message, gc |-> gc,
          repo |-> [repo EXCEPT !.committed = @ \cup repo.staged, !.staged = {}]]
    ELSE [out |-> <<"Failed to commit:">>, gc |-> gc, repo |-> repo]

llm_git_commit(gc, repo, message, rc) ==
    IF ~gc.enabled THEN [out |-> <<"Git not initialized.">>, gc |-> gc, repo |-> repo]
    ELSE IF message = <<>>
    THEN [out |-> <<"Commit message empty.">>, gc |-> gc, repo |-> repo]
    ELSE IF ~repo.installed
    THEN [out |-> <<"Git commit error:", "FileNotFoundError">>,
          gc |-> [gc EXCEPT !.enabled = FALSE], repo |-> repo]
    ELSE IF repo.repo /\ repo.staged = {}
    THEN [out |-> <<"No changes staged. Use git_add first.">>, gc |-> gc, repo |-> repo]
    ELSE IF rc = "ok" /\ repo.repo
    THEN [out |-> <<"Committed. Commit:">> \o message, gc |-> gc,
          repo |-> [repo EXCEPT !.committed = @ \cup repo.staged, !.staged = {}]]
    ELSE [out |-> <<"Failed to commit:">>, gc |-> gc, repo |-> repo]

llm_git_create_branch(gc, repo, branch_name, rc) ==
    IF ~gc.enabled THEN [out |-> <<"Git not initialized.">>, gc |-> gc, repo |-> repo]
    ELSE IF branch_name = <<>>
    THEN [out |-> <<"Branch name empty.">>, gc |-> gc, repo |-> repo]
    ELSE IF ~repo.installed
    THEN [out |-> <<"Branch op failed for", "FileNotFoundError">>,
          gc |-> [gc EXCEPT !.enabled = FALSE], repo |-> repo]
    ELSE IF rc = "failed" \/ ~repo.repo
    THEN [out |-> <<"Branch op failed for", "CalledProcessError">>,
          gc |-> gc, repo |-> repo]
    ELSE IF branch_name[1] \in repo.branches
    THEN IF repo.current = branch_name[1]
         THEN [out |-> <<"Already on branch">> \o branch_name, gc |-> gc, repo |-> repo]
         ELSE [out |-> <<"Branch exists. Switched to it.">> \o branch_name,
               gc |-> [gc EXCEPT !.branch = branch_name[1]],
               repo |-> [repo EXCEPT !.current = branch_name[1]]]
    ELSE [out |-> <<"Created & switched to new branch">> \o branch_name,
          gc |-> [gc EXCEPT !.branch = branch_name[1]],
          repo |-> [repo EXCEPT !.current = branch_name[1],
                                 !.branches = @ \cup {branch_name[1]}]]

llm_git_status(gc, repo, rc) ==
    IF ~gc.enabled THEN [out |-> <<"Git not initialized.">>, gc |-> gc, repo |-> repo]
    ELSE IF ~repo.installed
    THEN [out |-> <<"Git status error:", "FileNotFoundError">>,
          gc |-> [gc EXCEPT !.enabled = FALSE], repo |-> repo]
    ELSE IF rc = "failed" \/ ~repo.repo \/ repo.staged = {}
    THEN [out |-> <<"On branch", "Working tree clean.">>, gc |-> gc, repo |-> repo]
    ELSE [out |-> <<"On branch", "Changes to be committed:">>, gc |-> gc, repo |-> repo]

(***************************************************************************)
(* The tool dispatcher.                                                    *)
(***************************************************************************)
\* the ten operations of the tool schema
ToolNames == {"read_file", "read_multiple_files", "create_file",
              "create_multiple_files", "edit_file", "git_init", "git_add",
              "git_commit", "git_create_branch", "git_status"}

\* the last member of args with the given key, "" when there is none
RECURSIVE LastMember(_, _)
LastMember(members, key) ==
    IF members = <<>> THEN ""
    ELSE IF MemberKey(members[Len(members)]) = key THEN members[Len(members)]
    ELSE LastMember(SubSeq(members, 1, Len(members) - 1), key)

\* args[key]: TypeError when args is no dict, KeyError when the key is missing
ArgIndex(args, key) ==
    IF args.kind # "object" THEN [exc |-> "TypeError", value |-> <<>>]
    ELSE IF LastMember(args.members, key) = "" THEN [exc |-> "KeyError", value |-> <<>>]
    ELSE [exc |-> "none", value |-> MemberValue(LastMember(args.members, key))]

\* args.get(key, default): AttributeError when args is no dict
ArgGet(args, key) ==
    IF args.kind # "object" THEN [exc |-> "AttributeError", value |-> <<>>]
    ELSE IF LastMember(args.members, key) = "" THEN [exc |-> "none", value |-> <<>>]
    ELSE [exc |-> "none", value |-> MemberValue(LastMember(args.members, key))]

\* the except clauses of execute_function_call_dict (src l.995-1004)
ErrorText(exc, func_name) ==
    CASE exc = "JSONDecodeError" -> <<"Error: Invalid JSON args for", func_name>>
      [] exc = "KeyError" -> <<"Error: Missing param for", func_name>>
      [] OTHER -> <<"Unexpected error in", func_name>>

\* the segments of read_multiple_files (src l.958-964)
RECURSIVE ReadSegments(_, _)
ReadSegments(fs, file_paths) ==
    IF file_paths = <<>> THEN <<>>
    ELSE LET fp == Head(file_paths)
             rd == read_local_file(fs, normalize_path(fp))
         IN  <<IF rd.exc = "none"
               THEN <<"Content of", fp[Len(fp)]>> \o rd.text
               ELSE <<"Error reading", fp[Len(fp)]>> >>
             \o ReadSegments(fs, Tail(file_paths))

\* sep.join(segments)
RECURSIVE Join(_, _)
Join(segments, sep) ==
    IF segments = <<>> THEN <<>>
    ELSE IF Len(segments) = 1 THEN segments[1]
    ELSE segments[1] \o sep \o Join(Tail(segments), sep)

\* the loop of create_multiple_files (src l.971-976); every content is "a"
RECURSIVE CreateAll(_, _, _, _, _, _)
CreateAll(fs, gc, repo, linesep, paths, stage_rc) ==
    IF paths = <<>> THEN [fs |-> fs, repo |-> repo, created |-> <<>>, errors |-> <<>>]
    ELSE LET cr == create_file(fs, gc, repo, linesep, Head(paths), <<"a">>, stage_rc)
             name == Head(paths)[Len(Head(paths))]
             rest == CreateAll(cr.fs, gc, cr.repo, linesep, Tail(paths), stage_rc)
         IN  [fs |-> rest.fs, repo |-> rest.repo,
              created |-> (IF cr.exc = "none" THEN <<name>> ELSE <<>>) \o rest.created,
              errors |-> (IF cr.exc = "none" THEN <<>> ELSE <<name>>) \o rest.errors]

Returned(out, history, fs, gc, repo) ==
    [out |-> out, history |-> history, fs |-> fs, gc |-> gc, repo |-> repo]

\* the edit_file branch (src l.981-988)
ExecEditFile(args, history, fs, gc, repo, linesep, stage_rc) ==
    LET fp == ArgIndex(args, "file_path")
        ctx == ensure_file_in_context(history, fs, fp.value)
        orig == ArgIndex(args, "original_snippet")
        new == ArgIndex(args, "new_snippet")
        ed == apply_diff_edit(fs, gc, repo, linesep, fp.value, orig.value,
                              new.value, stage_rc)
    IN  IF fp.exc # "none"
        THEN Returned(ErrorText(fp.exc, "edit_file"), history, fs, gc, repo)
        ELSE IF ~ctx.ok
        THEN Returned(<<"Error: Could not read">> \o fp.value \o <<"for editing.">>,
                      history, fs, gc, repo)
        ELSE IF orig.exc # "none" \/ new.exc # "none"
        THEN Returned(<<"Error during edit_file call for">> \o fp.value,
                      ctx.history, fs, gc, repo)
        ELSE Returned(<<"Edit attempt on">> \o fp.value \o <<"Check console.">>,
                      ctx.history, ed.fs, gc, ed.repo)

\* the git branches (src l.989-993)
ExecGit(func_name, args, history, fs, gc, repo, rc) ==
    LET file_paths == ArgGet(args, "file_paths")
        message == ArgGet(args, "message")
        branch_name == ArgGet(args, "branch_name")
        g == CASE func_name = "git_init" -> llm_git_init(gc, repo, rc)
               [] func_name = "git_add" -> llm_git_add(gc, repo, file_paths.value, rc)
               [] func_name = "git_commit" ->
                     llm_git_commit(gc, repo,
                                    IF LastMember(args.members, "message") = ""
                                    THEN <<"Auto commit">> ELSE message.value, rc)
               [] func_name = "git_create_branch" ->
                     llm_git_create_branch(gc, repo, branch_name.value, rc)
               [] OTHER -> llm_git_status(gc, repo, rc)
    IN  IF func_name \in {"git_add", "git_commit", "git_create_branch"}
           /\ args.kind # "object"
        THEN Returned(ErrorText("AttributeError", func_name), history, fs, gc, repo)
        ELSE Returned(g.out, history, fs, g.gc, g.repo)

execute_function_call_dict(tool_call_dict, history, fs, gc, repo, linesep, stage_rc, rc) ==
    LET func_name == tool_call_dict.name
        args == json_loads(tool_call_dict.arguments)
        file_path == ArgIndex(args, "file_path")
        content == ArgIndex(args, "content")
        file_paths == ArgIndex(args, "file_paths")
        files_arg == ArgIndex(args, "files")
        rd == read_local_file(fs, normalize_path(file_path.value))
        cr == create_file(fs, gc, repo, linesep, file_path.value, content.value,
                          stage_rc)
        all == CreateAll(fs, gc, repo, linesep, files_arg.value, stage_rc)
    IN  IF args.exc # "none"
        THEN Returned(ErrorText(args.exc, func_name), history, fs, gc, repo)
        ELSE CASE func_name = "read_file" ->
                    IF file_path.exc # "none"
                    THEN Returned(ErrorText(file_path.exc, func_name), history, fs, gc, repo)
                    ELSE IF rd.exc # "none"
                    THEN Returned(ErrorText(rd.exc, func_name), history, fs, gc, repo)
                    ELSE Returned(<<"Content of file">> \o normalize_path(file_path.value)
                                  \o rd.text, history, fs, gc, repo)
               [] func_name = "read_multiple_files" ->
                    IF file_paths.exc # "none"
                    THEN Returned(ErrorText(file_paths.exc, func_name), history, fs, gc, repo)
                    ELSE Returned(<<"\n\n", "==== FILE SEP ====">>
                                  \o Join(ReadSegments(fs, file_paths.value), <<"\n\n">>),
                                  history, fs, gc, repo)
               [] func_name = "create_file" ->
                    IF file_path.exc # "none"
                    THEN Returned(ErrorText(file_path.exc, func_name), history, fs, gc, repo)
                    ELSE IF content.exc # "none"
                    THEN Returned(ErrorText(content.exc, func_name), history, fs, gc, repo)
                    ELSE IF cr.exc # "none"
                    THEN Returned(ErrorText(cr.exc, func_name), history, fs, gc, repo)
                    ELSE Returned(<<"File">> \o file_path.value \o <<"created/updated.">>,
                                  history, cr.fs, gc, cr.repo)
               [] func_name = "create_multiple_files" ->
                    IF files_arg.exc # "none"
                    THEN Returned(ErrorText(files_arg.exc, func_name), history, fs, gc, repo)
                    ELSE Returned(IF all.created = <<>> /\ all.errors = <<>>
                                  THEN <<"No files processed.">>
                                  ELSE (IF all.created # <<>>
                                        THEN <<"Created/updated files:">> \o all.created
                                        ELSE <<>>)
                                       \o (IF all.errors # <<>>
                                           THEN <<"Errors:">> \o all.errors ELSE <<>>),
                                  history, all.fs, gc, all.repo)
               [] func_name = "edit_file" ->
                    ExecEditFile(args, history, fs, gc, repo, linesep, stage_rc)
               [] func_name \in {"git_init", "git_add", "git_commit",
                                 "git_create_branch", "git_status"} ->
                    ExecGit(func_name, args, history, fs, gc, repo, rc)
               [] OTHER ->
                    Returned(<<"Unknown LLM function:", func_name>>, history, fs, gc, repo)

(***************************************************************************)
(* Values of the variables an operation under study leaves alone.          *)
(***************************************************************************)
GitOff == [enabled |-> FALSE, skip_staging |-> FALSE, branch |-> "None"]

NoRepo == [installed |-> TRUE, repo |-> FALSE, gitignore |-> FALSE,
           staged |-> {}, committed |-> {}, branches |-> {}, current |-> ""]

LineSeps == {<<"LF">>, <<"CR", "LF">>}

StageOutcomes == {"ok", "failed"}

DriverIdle ==
    /\ conversation_history = <<SystemPrompt>>
    /\ full_response_content = <<>>
    /\ accumulated_tool_calls = <<>>
    /\ valid_tool_calls = <<>>
    /\ tool_idx = 0
    /\ delivered = <<>>
    /\ last_output = <<>>
    /\ turns = 0

driverVars == <<conversation_history, full_response_content,
                accumulated_tool_calls, valid_tool_calls, tool_idx, delivered,
                last_output, turns>>

(***************************************************************************)
(* The conversation driver, main_loop.  pc is "prompt" while it waits for  *)
(* the user, "stream" while it consumes the reply, "dispatch" inside the   *)
(* for loop over valid_tool_calls and "truncate" before the truncation.    *)
(***************************************************************************)
\* the positions a reply can address in accumulated_tool_calls
ToolCallIndexes == {0, 1}

\* the tool-call fragments the remote model sends in turn t. Every turn can
\* carry a read_file of a missing file and a git_status without arguments;
\* the first turn can also carry a read_file whose arguments break off, an
\* edit_file of a.txt and a git_status with an empty arguments object
DriverChunks(t) ==
    {[index |-> 0, id |-> <<t, 0>>, name |-> "read_file",
      arguments |-> <<"{", "file_path:~b.txt", "}">>],
     [index |-> 1, id |-> <<t, 1>>, name |-> "git_status", arguments |-> <<>>]}
    \cup
    (IF t > 1 THEN {}
     ELSE {[index |-> 0, id |-> <<t, 0>>, name |-> "read_file",
            arguments |-> <<"{">>],
           [index |-> 0, id |-> <<t, 0>>, name |-> "edit_file",
            arguments |-> <<"{", "file_path:a.txt", "original_snippet:a",
                            "new_snippet:LF", "}">>],
           [index |-> 1, id |-> <<t, 1>>, name |-> "git_status",
            arguments |-> <<"{", "}">>]})

\* what is remembered of a delivered fragment: the fragment itself when the
\* assembler is studied on its own, otherwise only that a chunk arrived
Logged(chunk, whole) == IF whole THEN chunk ELSE "chunk"

\* a driver that records a reply only when it has text or tool calls
AppendAssistantMessageIfAny(history, content, tool_calls) ==
    IF content = <<>> /\ tool_calls = <<>> THEN history
    ELSE Append(history, Entry("assistant", content, tool_calls, <<>>, ""))

\* the assistant message of src l.1072-1084 appended to the history
AppendAssistantMessage(history, content, tool_calls) ==
    Append(history, Entry("assistant", content, tool_calls, <<>>, ""))

\* a tool message that is not tagged with the name of the call
ToolMessageUnnamed(tool_call, tool_output) ==
    Entry("tool", tool_output, <<>>, tool_call.id, "")

\* the tool message of src l.1096-1101
ToolMessage(tool_call, tool_output) ==
    Entry("tool", tool_output, <<>>, tool_call.id, tool_call.name)

\* back at the prompt the locals of the finished iteration are dead: each is
\* assigned before it is read again (src l.1046, 1047, 1079, 1088), so the
\* model forgets their values
LocalsDead ==
    /\ full_response_content' = <<>>
    /\ accumulated_tool_calls' = <<>>
    /\ valid_tool_calls' = <<>>
    /\ tool_idx' = 0
    /\ delivered' = <<>>

Init ==
    /\ DriverIdle
    /\ os_linesep = <<"LF">>
    /\ files = [q \in Paths |-> IF q = PathA THEN FileOf(<<"a">>) ELSE Absent]
    /\ git_context = GitOff
    /\ git_repo = NoRepo
    /\ request = <<>>
    /\ before = <<>>
    /\ file_history = <<>>
    /\ pc = "prompt"

\* src l.1022-1047: the user's line is appended and the request is sent;
\* request keeps the messages of the request (messages=conversation_history)
\* until the turn is over
UserInput ==
    /\ pc = "prompt"
    /\ turns < MaxTurns
    /\ conversation_history' =
          Append(conversation_history, Entry("user", <<"user_input">>, <<>>, <<>>, ""))
    /\ full_response_content' = <<>>
    /\ accumulated_tool_calls' = <<>>
    /\ delivered' = <<>>
    /\ turns' = turns + 1
    /\ request' = conversation_history'
    /\ pc' = "stream"
    /\ UNCHANGED <<files, git_context, git_repo, os_linesep, valid_tool_calls,
                   tool_idx, last_output, before, file_history>>

\* src l.1052-1055: a chunk that carries text
StreamContent ==
    /\ pc = "stream"
    /\ Len(delivered) + Len(full_response_content) < MaxChunks
    /\ full_response_content' = full_response_content \o <<"text">>
    /\ UNCHANGED <<conversation_history, files, git_context, git_repo, os_linesep,
                   pc, accumulated_tool_calls, valid_tool_calls, tool_idx,
                   delivered, last_output, turns, request, before,
                   file_history>>

\* src l.1057-1069: a chunk that carries a tool-call fragment
StreamToolCall(chunks, limit, whole) ==
    /\ pc = "stream"
    /\ Len(delivered) + Len(full_response_content) < limit
    /\ \E chunk \in chunks :
          /\ accumulated_tool_calls' = Accumulate(accumulated_tool_calls, chunk)
          /\ delivered' = Append(delivered, Logged(chunk, whole))
    /\ UNCHANGED <<conversation_history, files, git_context, git_repo, os_linesep,
                   pc, full_response_content, valid_tool_calls, tool_idx,
                   last_output, turns, request, before, file_history>>

\* src l.1072-1084: the stream is exhausted
StreamEnd ==
    /\ pc = "stream"
    /\ LET valid == validate_tool_calls(accumulated_tool_calls)
       IN  /\ valid_tool_calls' = valid
           /\ conversation_history' =
                 AppendAssistantMessage(conversation_history,
                                        full_response_content, valid)
           /\ pc' = IF valid # <<>> THEN "dispatch" ELSE "truncate"
    /\ tool_idx' = 1
    /\ delivered' = <<>>
    /\ UNCHANGED <<files, git_context, git_repo, os_linesep, full_response_content,
                   accumulated_tool_calls, last_output, turns, request, before,
                   file_history>>

\* src l.1088-1101: one iteration of the for loop over valid_tool_calls
DispatchTool ==
    /\ pc = "dispatch"
    /\ \E stage_rc \in StageOutcomes, rc \in StageOutcomes :
          LET tool_call_to_exec == valid_tool_calls[tool_idx]
              r == execute_function_call_dict(tool_call_to_exec,
                       conversation_history, files, git_context, git_repo,
                       os_linesep, stage_rc, rc)
          IN  /\ conversation_history' =
                    Append(r.history, ToolMessage(tool_call_to_exec, r.out))
              /\ files' = r.fs
              /\ git_context' = r.gc
              /\ git_repo' = r.repo
    /\ tool_idx' = tool_idx + 1
    /\ pc' = IF tool_idx < Len(valid_tool_calls) THEN "dispatch" ELSE "truncate"
    /\ UNCHANGED <<os_linesep, full_response_content, accumulated_tool_calls,
                   valid_tool_calls, delivered, last_output, turns, request, before,
                   file_history>>

\* src l.1103-1105
Truncate ==
    /\ pc = "truncate"
    /\ conversation_history' =
          smart_truncate_history(conversation_history, MAX_HISTORY_MESSAGES)
    /\ pc' = "prompt"
    /\ LocalsDead
    /\ request' = <<>>
    /\ UNCHANGED <<files, git_context, git_repo, os_linesep, last_output, turns,
                   before, file_history>>

\* src l.1107: Ctrl+C while the turn runs; the loop goes back to the prompt
Interrupt ==
    /\ pc \in {"stream", "dispatch", "truncate"}
    /\ pc' = "prompt"
    /\ LocalsDead
    /\ request' = <<>>
    /\ UNCHANGED <<conversation_history, files, git_context, git_repo, os_linesep,
                   last_output, turns, before, file_history>>

\* src l.1109-1111: the request or the stream raises (the network fails)
StreamError ==
    /\ pc = "stream"
    /\ pc' = "prompt"
    /\ LocalsDead
    /\ request' = <<>>
    /\ UNCHANGED <<conversation_history, files, git_context, git_repo, os_linesep,
                   last_output, turns, before, file_history>>

\* try_handle_add_command on the path of a file (src l.471-488)
AddCommand ==
    /\ pc = "prompt"
    /\ \E path_to_add \in RawPaths :
          LET normalized_path == normalize_path(path_to_add)
          IN  /\ files[normalized_path].exists
              /\ conversation_history' =
                    add_file_context_smartly(conversation_history, normalized_path,
                        read_local_file(files, normalized_path).text)
    /\ UNCHANGED <<files, git_context, git_repo, os_linesep, pc,
                   full_response_content, accumulated_tool_calls,
                   valid_tool_calls, tool_idx, delivered, last_output, turns,
                   request, before, file_history>>

Next ==
    \/ UserInput
    \/ StreamContent
    \/ StreamToolCall(DriverChunks(turns), MaxChunks, FALSE)
    \/ StreamEnd
    \/ DispatchTool
    \/ Truncate
    \/ Interrupt
    \/ StreamError
    \/ AddCommand

Spec == Init /\ [][Next]_vars

(***************************************************************************)
(* Properties of the driver.                                               *)
(***************************************************************************)
IsTool(msg) == msg.role = "tool"

BearsToolCalls(msg) == msg.role = "assistant" /\ msg.tool_calls # <<>>

\* what the specification asks of a call that may be stored or dispatched
WellFormedCall(call) ==
    /\ call.id # <<>>
    /\ call.name # ""
    /\ (call.arguments = <<>> \/ json_loads(call.arguments).exc = "none")

\* C1: every tool-role entry of conversation_history has a tool_call_id equal
\* to the id of one of the tool calls of the nearest preceding assistant entry
\* that carries tool_calls, and such an entry exists.
C1_ToolEntriesFollowTheirAssistant ==
    \A i \in 1..Len(conversation_history) :
        IsTool(conversation_history[i]) =>
            LET prior == {j \in 1..(i - 1) : BearsToolCalls(conversation_history[j])}
            IN  /\ prior # {}
                /\ LET j == CHOOSE x \in prior : \A y \in prior : y <= x
                       calls == conversation_history[j].tool_calls
                   IN  \E k \in 1..Len(calls) :
                          calls[k].id = conversation_history[i].tool_call_id

\* the entry at position k of keep_messages belongs to a causal run: it is a
\* tool-role entry, or the assistant entry bearing the calls of the run after it
InCausalRun(keep_messages, k) ==
    \/ IsTool(keep_messages[k])
    \/ /\ BearsToolCalls(keep_messages[k])
       /\ k < Len(keep_messages)
       /\ IsTool(keep_messages[k + 1])

\* C2: when the retained system entries plus the kept suffix exceed
\* max_messages, the final trim removes no entry of a pulled-in causal run and
\* not the first system entry; the result rather exceeds the budget.
C2_FinalTrimSparesCausalRuns ==
    [][(/\ pc = "truncate"
        /\ pc' = "prompt"
        /\ conversation_history' # conversation_history)
       => LET system_messages ==
                  ImportantSystem(SelectSeq(conversation_history, IsSystem))
              keep_messages ==
                  KeepMessages(conversation_history, MAX_HISTORY_MESSAGES)
              removed == Len(system_messages) + Len(keep_messages)
                         - Len(conversation_history')
          IN  /\ conversation_history'[1] = conversation_history[1]
              /\ \A k \in 1..Len(keep_messages) :
                    InCausalRun(keep_messages, k) => k > removed]_vars

\* C3: a reply that reaches end-of-stream appends exactly one assistant entry,
\* carrying the accumulated text and the validated tool calls, also when the
\* text is empty and no tool call survives validation.
C3_OneAssistantEntryPerReply ==
    [][(pc = "stream" /\ pc' \in {"dispatch", "truncate"})
       => /\ Len(conversation_history') = Len(conversation_history) + 1
          /\ SubSeq(conversation_history', 1, Len(conversation_history))
                = conversation_history
          /\ LET last == conversation_history'[Len(conversation_history')]
             IN  /\ last.role = "assistant"
                 /\ last.content = full_response_content
                 /\ last.tool_calls =
                       SelectSeq(accumulated_tool_calls, WellFormedCall)]_vars

\* a reply with no text and no valid tool call has been recorded
C3_Witness ==
    /\ pc = "truncate"
    /\ LET last == conversation_history[Len(conversation_history)]
       IN  last.role = "assistant" /\ last.content = <<>> /\ last.tool_calls = <<>>

\* the position of the last assistant entry of the history, 0 when none
LastAssistant(history) ==
    LET at == {i \in 1..Len(history) : history[i].role = "assistant"}
    IN  IF at = {} THEN 0 ELSE CHOOSE i \in at : \A j \in at : j <= i

\* C4: the n validated tool calls of a turn are dispatched in list order and
\* n tool-role entries are appended in that order, the k-th carrying the id and
\* the name of the k-th call and a result text; a failure result of an earlier
\* call does not stop the later ones.
C4_ToolEntriesInCallOrder ==
    pc \in {"dispatch", "truncate"} =>
        LET a == LastAssistant(conversation_history)
            calls == conversation_history[a].tool_calls
            tools == SelectSeq(SubSeq(conversation_history, a + 1,
                                      Len(conversation_history)), IsTool)
            done == IF pc = "dispatch" THEN tool_idx - 1 ELSE Len(calls)
        IN  /\ a > 0
            /\ calls = valid_tool_calls
            /\ Len(tools) = done
            /\ \A k \in 1..done :
                  /\ tools[k].tool_call_id = calls[k].id
                  /\ tools[k].name = calls[k].name
                  /\ tools[k].content # <<>>

\* two calls were dispatched although the first one returned a failure text
C4_Witness ==
    /\ pc = "truncate"
    /\ Len(valid_tool_calls) = 2
    /\ LET n == Len(conversation_history)
       IN  /\ IsTool(conversation_history[n - 1])
           /\ conversation_history[n - 1].content[1] = "Unexpected error in"
           /\ IsTool(conversation_history[n])
           /\ conversation_history[n].tool_call_id = valid_tool_calls[2].id

\* C5: no call with an empty id, an empty name or arguments that are neither
\* empty nor well-formed JSON is stored in an assistant entry or dispatched;
\* validation drops exactly those calls and keeps the others in their order.
C5_OnlyWellFormedCallsKept ==
    /\ \A i \in 1..Len(conversation_history) :
          \A k \in 1..Len(conversation_history[i].tool_calls) :
             WellFormedCall(conversation_history[i].tool_calls[k])
    /\ pc \in {"dispatch", "truncate"} =>
          valid_tool_calls = SelectSeq(accumulated_tool_calls, WellFormedCall)
    /\ pc = "dispatch" => WellFormedCall(valid_tool_calls[tool_idx])

\* a padded placeholder or a call with broken arguments was dropped and the
\* call after it is being dispatched
C5_Witness ==
    /\ pc = "dispatch"
    /\ Len(accumulated_tool_calls) = 2
    /\ accumulated_tool_calls[1].arguments = <<"{">>
    /\ valid_tool_calls = <<accumulated_tool_calls[2]>>

\* C8: when a turn is aborted, the history is as before the turn or as after
\* the complete turn: back at the prompt no user entry lacks its assistant
\* reply and no assistant entry has fewer tool-role results than tool calls.
C8_AbortedTurnLeavesNoPartialTurn ==
    pc = "prompt" =>
        LET other_messages == SelectSeq(conversation_history, IsNotSystem)
        IN  \A i \in 1..Len(other_messages) :
               /\ other_messages[i].role = "user" =>
                     /\ i < Len(other_messages)
                     /\ other_messages[i + 1].role = "assistant"
               /\ other_messages[i].role = "assistant" =>
                     LET n == Len(other_messages[i].tool_calls)
                     IN  /\ i + n <= Len(other_messages)
                         /\ \A k \in 1..n : IsTool(other_messages[i + k])

(***************************************************************************)
(* The snippet editor on its own: SpecEdit draws a filesystem and an edit  *)
(* request and applies apply_diff_edit once.                               *)
(***************************************************************************)
InitEdit ==
    /\ DriverIdle
    /\ os_linesep \in LineSeps
    /\ \E p \in Paths, f \in {Absent} \cup {FileOf(d) : d \in SeqsUpTo(Chars, MaxContentLen)} :
           files = [q \in Paths |-> IF q = p THEN f ELSE Absent]
    /\ \E on \in BOOLEAN :
           /\ git_context = [GitOff EXCEPT !.enabled = on]
           /\ git_repo = [NoRepo EXCEPT !.repo = on]
    /\ request \in [op : {"apply_diff_edit"},
                     path : RawPaths,
                     original_snippet : SeqsUpTo(Chars, MaxSnippetLen),
                     new_snippet : SeqsUpTo(Chars, MaxNewLen)]
    /\ before = files
    /\ file_history = <<>>
    /\ pc = "call"

ApplyDiffEdit ==
    /\ pc = "call"
    /\ request.op = "apply_diff_edit"
    /\ \E stage_rc \in StageOutcomes :
          LET r == apply_diff_edit(files, git_context, git_repo, os_linesep,
                                   request.path, request.original_snippet,
                                   request.new_snippet, stage_rc)
          IN  /\ files' = r.fs
              /\ git_repo' = r.repo
              /\ last_output' = <<r.outcome>>
    /\ pc' = "done"
    /\ UNCHANGED <<conversation_history, git_context, os_linesep,
                   full_response_content, accumulated_tool_calls,
                   valid_tool_calls, tool_idx, delivered, turns, request, before,
                   file_history>>

NextEdit == ApplyDiffEdit

SpecEdit == InitEdit /\ [][NextEdit]_vars

\* the positions at which sub occurs in s, overlapping ones included
Occurrences(s, sub) ==
    {i \in 1..(Len(s) + 1) :
        /\ i + Len(sub) - 1 <= Len(s)
        /\ SubSeq(s, i, i + Len(sub) - 1) = sub}

\* s with the occurrence of sub at position i replaced by new
ReplacedAt(s, sub, new, i) ==
    SubSeq(s, 1, i - 1) \o new \o SubSeq(s, i + Len(sub), Len(s))

\* C10: for every existing file F and snippet S occurring exactly once in
\* F's content, apply_diff_edit(F, S, S') leaves F's content equal to the
\* original content with that occurrence replaced by S' and every other
\* character unchanged.
C10_EditReplacesOnlyTheSnippet ==
    (pc = "done" /\ request.op = "apply_diff_edit") =>
        LET p == normalize_path(request.path)
            old == before[p]
            occ == Occurrences(old.data, request.original_snippet)
        IN  (old.exists /\ Cardinality(occ) = 1) =>
                /\ files[p].exists
                /\ files[p].data =
                       ReplacedAt(old.data, request.original_snippet,
                                  request.new_snippet, CHOOSE i \in occ : TRUE)

\* C11: when the snippet occurs zero times or at least twice in the content
\* of the file, apply_diff_edit writes nothing (file unchanged, nothing staged)
\* and reports 'snippet not found' for zero occurrences and 'ambiguous edit'
\* for two or more.
C11_NoWriteUnlessExactlyOnce ==
    (pc = "done" /\ request.op = "apply_diff_edit") =>
        LET p == normalize_path(request.path)
            old == before[p]
            occ == Occurrences(old.data, request.original_snippet)
        IN  (old.exists /\ Cardinality(occ) # 1) =>
                /\ files = before
                /\ git_repo.staged = {}
                /\ last_output = <<IF occ = {} THEN "snippet_not_found"
                                   ELSE "ambiguous_edit">>

(***************************************************************************)
(* The assembler on its own: SpecStream delivers tool-call fragments of    *)
(* one reply in every order and every split the fragment set allows and    *)
(* logs them whole.                                                        *)
(***************************************************************************)
StreamHeads ==
    {[id |-> <<>>, name |-> ""],
     [id |-> <<1, 0>>, name |-> "read_file"],
     [id |-> <<1, 1>>, name |-> "git_status"],
     [id |-> <<1, 0>>, name |-> ""],
     [id |-> <<>>, name |-> "read_file"]}

StreamChunks ==
    {[index |-> i, id |-> h.id, name |-> h.name, arguments |-> a] :
        i \in ToolCallIndexes, h \in StreamHeads, a \in {<<>>, <<"{">>, <<"}">>}}

InitStream ==
    /\ conversation_history = <<SystemPrompt,
                                Entry("user", <<"user_input">>, <<>>, <<>>, "")>>
    /\ full_response_content = <<>>
    /\ accumulated_tool_calls = <<>>
    /\ valid_tool_calls = <<>>
    /\ tool_idx = 0
    /\ delivered = <<>>
    /\ last_output = <<>>
    /\ turns = 1
    /\ os_linesep = <<"LF">>
    /\ files = [q \in Paths |-> Absent]
    /\ git_context = GitOff
    /\ git_repo = NoRepo
    /\ request = <<>>
    /\ before = <<>>
    /\ file_history = <<>>
    /\ pc = "stream"

NextStream == StreamToolCall(StreamChunks, MaxStreamChunks, TRUE)

SpecStream == InitStream /\ [][NextStream]_vars

\* the fragments delivered for one index
FragmentsOf(chunks, i) == SelectSeq(chunks, LAMBDA c : c.index = i)

\* the last non-empty id among fragments, the empty id when none
RECURSIVE FinalId(_)
FinalId(chunks) ==
    IF chunks = <<>> THEN <<>>
    ELSE IF chunks[Len(chunks)].id # <<>> THEN chunks[Len(chunks)].id
    ELSE FinalId(SubSeq(chunks, 1, Len(chunks) - 1))

\* the last non-empty name among fragments, the empty name when none
RECURSIVE FinalName(_)
FinalName(chunks) ==
    IF chunks = <<>> THEN ""
    ELSE IF chunks[Len(chunks)].name # "" THEN chunks[Len(chunks)].name
    ELSE FinalName(SubSeq(chunks, 1, Len(chunks) - 1))

\* the arguments fragments concatenated in arrival order
RECURSIVE AllArguments(_)
AllArguments(chunks) ==
    IF chunks = <<>> THEN <<>>
    ELSE chunks[1].arguments \o AllArguments(Tail(chunks))

\* the same reply delivered unsplit: one fragment per index, by index
RECURSIVE UnsplitFrom(_, _)
UnsplitFrom(chunks, i) ==
    IF i \notin ToolCallIndexes THEN <<>>
    ELSE LET mine == FragmentsOf(chunks, i)
         IN  (IF mine = <<>> THEN <<>>
              ELSE <<[index |-> i, id |-> FinalId(mine), name |-> FinalName(mine),
                      arguments |-> AllArguments(mine)]>>)
             \o UnsplitFrom(chunks, i + 1)

\* the list the assembler builds from a sequence of fragments
RECURSIVE Assemble(_, _)
Assemble(calls, chunks) ==
    IF chunks = <<>> THEN calls
    ELSE Assemble(Accumulate(calls, chunks[1]), Tail(chunks))

\* C7: deliveries that give each index the same final id, the same final name
\* and the same concatenated arguments produce the same validated tool-call
\* list, however the fragments are split and interleaved across indices.
C7_AssemblyIgnoresChunking ==
    pc = "stream" =>
        validate_tool_calls(accumulated_tool_calls)
            = validate_tool_calls(Assemble(<<>>, UnsplitFrom(delivered, 0)))

\* the arguments of call 0 arrived in two fragments around one of call 1 and
\* the assembled call 0 is valid
C7_Witness ==
    /\ Len(delivered) = 3
    /\ delivered[1].index = 0 /\ delivered[1].arguments = <<"{">>
    /\ delivered[2].index = 1
    /\ delivered[3].index = 0 /\ delivered[3].arguments = <<"}">>
    /\ Len(validate_tool_calls(accumulated_tool_calls)) >= 1
    /\ validate_tool_calls(accumulated_tool_calls)[1].arguments = <<"{", "}">>

(***************************************************************************)
(* The dispatcher on its own: SpecDispatch draws one validated tool call,  *)
(* a file system and a git state, and dispatches the call once.            *)
(***************************************************************************)
DispatchArguments ==
    {<<>>, <<"0">>, <<"{", "}">>}
    \cup {<<"{", m, "}">> : m \in MemberTokens}
    \cup {<<"{", "file_path:a.txt", "content:a", "}">>,
          <<"{", "file_path:a.txt", "original_snippet:a", "new_snippet:LF", "}">>}

DispatchNames == ToolNames \cup {"bogus_tool"}

InitDispatch ==
    /\ DriverIdle
    /\ os_linesep \in LineSeps
    /\ \E f \in {Absent, FileOf(<<"a">>), FileOf(<<"a", "a">>)} :
           files = [q \in Paths |-> IF q = PathA THEN f ELSE Absent]
    /\ \E on \in BOOLEAN : git_context = [GitOff EXCEPT !.enabled = on]
    /\ \E inst \in BOOLEAN, rep \in BOOLEAN :
           git_repo = [NoRepo EXCEPT !.installed = inst, !.repo = rep]
    /\ request \in [id : {<<1, 0>>}, name : DispatchNames,
                     arguments : DispatchArguments]
    /\ IsValidToolCall(request)
    /\ before = files
    /\ file_history = <<>>
    /\ pc = "call"

\* src l.1088-1095: one validated call handed to execute_function_call_dict
Dispatch ==
    /\ pc = "call"
    /\ \E stage_rc \in StageOutcomes, rc \in StageOutcomes :
          LET r == execute_function_call_dict(request, conversation_history, files,
                       git_context, git_repo, os_linesep, stage_rc, rc)
          IN  /\ conversation_history' = r.history
              /\ files' = r.fs
              /\ git_context' = r.gc
              /\ git_repo' = r.repo
              /\ last_output' = r.out
    /\ pc' = "done"
    /\ UNCHANGED <<os_linesep, full_response_content, accumulated_tool_calls,
                   valid_tool_calls, tool_idx, delivered, turns, request, before,
                   file_history>>

NextDispatch == Dispatch

SpecDispatch == InitDispatch /\ [][NextDispatch]_vars

\* C6: a call with empty arguments runs as a call with no arguments: for
\* git_status and git_init the named operation runs and the result is not the
\* invalid-arguments error text.
C6_EmptyArgumentsRunTheOperation ==
    (pc = "done" /\ request.arguments = <<>>
        /\ request.name \in {"git_status", "git_init"})
    => last_output[1] # "Error: Invalid JSON args for"

\* C9: dispatching a validated call always yields a text, and a name outside
\* the ten defined tools yields the unknown-function text.
C9_DispatchAlwaysReturnsText ==
    pc = "done" =>
        /\ last_output # <<>>
        /\ request.name \notin ToolNames =>
              last_output[1] = "Unknown LLM function:"

\* the arguments of the edit_file call SpecDispatch draws: replace the
\* snippet "a" of a.txt
EditCallArguments ==
    <<"{", "file_path:a.txt", "original_snippet:a", "new_snippet:LF", "}">>

\* the text the dispatcher returns for that call when a.txt holds the
\* snippet exactly once and the edit is applied
EditAppliedText ==
    execute_function_call_dict(
        [id |-> <<1, 0>>, name |-> "edit_file", arguments |-> EditCallArguments],
        <<SystemPrompt>>,
        [q \in Paths |-> IF q = PathA THEN FileOf(<<"a">>) ELSE Absent],
        GitOff, NoRepo, <<"LF">>, "ok", "ok").out

\* C12: the text an edit_file call returns reports the outcome: the result of
\* an edit that failed (file missing, snippet not found, snippet ambiguous)
\* differs from the result of an edit that was applied.
C12_EditResultTellsFailure ==
    (pc = "done" /\ request.name = "edit_file"
        /\ request.arguments = EditCallArguments)
    => LET old == before[PathA]
           failed == \/ ~old.exists
                     \/ Cardinality(Occurrences(old.data, <<"a">>)) # 1
       IN  failed => last_output # EditAppliedText

(***************************************************************************)
(* Truncation on its own: SpecTruncate draws a history and a budget and    *)
(* applies smart_truncate_history once and then once more to the result.   *)
(***************************************************************************)
\* the file-context entry add_file_context_smartly builds (src l.401-404)
FileContextEntry(file_path, content) ==
    Entry("system", Marker(file_path) \o <<". Content:">> \o content, <<>>, <<>>, "")

\* the entries a drawn history is made of: a user entry, a plain assistant
\* entry, an assistant entry with a tool call, its tool result, two file
\* contexts and a system entry that is no file context
HistoryEntries ==
    {Entry("user", <<"user_input">>, <<>>, <<>>, ""),
     Entry("assistant", <<"text">>, <<>>, <<>>, ""),
     Entry("assistant", <<>>,
           <<[id |-> <<1, 0>>, name |-> "git_status", arguments |-> <<"{", "}">>]>>,
           <<>>, ""),
     Entry("tool", <<"Git status:">>, <<>>, <<1, 0>>, "git_status"),
     FileContextEntry(PathA, <<"a">>),
     FileContextEntry(PathTilde, <<"a">>),
     Entry("system", <<"note">>, <<>>, <<>>, "")}

InitTruncate ==
    /\ full_response_content = <<>>
    /\ accumulated_tool_calls = <<>>
    /\ valid_tool_calls = <<>>
    /\ tool_idx = 0
    /\ delivered = <<>>
    /\ last_output = <<>>
    /\ turns = 0
    /\ os_linesep = <<"LF">>
    /\ files = [q \in Paths |-> Absent]
    /\ git_context = GitOff
    /\ git_repo = NoRepo
    /\ \E h \in SeqsUpTo(HistoryEntries, MaxHistoryLen), m \in 1..MaxBudget :
          /\ conversation_history = <<SystemPrompt>> \o h
          /\ request = [op |-> "smart_truncate_history", max_messages |-> m,
                        history |-> <<SystemPrompt>> \o h]
    /\ before = conversation_history
    /\ file_history = <<>>
    /\ pc = "call"

\* conversation_history = smart_truncate_history(conversation_history, m)
TruncateOnce ==
    /\ pc = "call"
    /\ conversation_history' =
          smart_truncate_history(conversation_history, request.max_messages)
    /\ pc' = "once"
    /\ UNCHANGED <<files, git_context, git_repo, os_linesep, full_response_content,
                   accumulated_tool_calls, valid_tool_calls, tool_idx, delivered,
                   last_output, turns, request, before, file_history>>

\* the same call on the result; before remembers the result of the first
TruncateAgain ==
    /\ pc = "once"
    /\ before' = conversation_history
    /\ UNCHANGED file_history
    /\ conversation_history' =
          smart_truncate_history(conversation_history, request.max_messages)
    /\ pc' = "twice"
    /\ UNCHANGED <<files, git_context, git_repo, os_linesep, full_response_content,
                   accumulated_tool_calls, valid_tool_calls, tool_idx, delivered,
                   last_output, turns, request>>

NextTruncate == TruncateOnce \/ TruncateAgain

SpecTruncate == InitTruncate /\ [][NextTruncate]_vars

\* C13: smart_truncate_history is idempotent: a history within the budget is
\* returned unchanged, and truncating the result again gives the same result.
C13_TruncationIdempotent ==
    /\ (pc = "once" /\ Len(request.history) <= request.max_messages)
          => conversation_history = request.history
    /\ pc = "twice" => conversation_history = before

\* a history over the budget, holding a tool entry, was shortened and
\* truncated again
C13_Witness ==
    /\ pc = "twice"
    /\ Len(request.history) > request.max_messages
    /\ Len(conversation_history) < Len(request.history)
    /\ \E i \in 1..Len(conversation_history) : IsTool(conversation_history[i])

\* the file-context entries of a history after its first system entry
FileContextsOf(history) ==
    LET system_messages == SelectSeq(history, IsSystem)
        IsContext(msg) == \E i \in 1..Len(msg.content) :
                              msg.content[i] = "User added file"
    IN  IF system_messages = <<>> THEN <<>>
        ELSE SelectSeq(Tail(system_messages), IsContext)

\* C14: whenever smart_truncate_history shortens a history, the result holds
\* the first system entry of the input, and its other system entries are
\* exactly the last min(3, k) of the input's k file-context entries, in their
\* original order; every other system entry is removed.
C14_TruncationKeepsLatestFileContexts ==
    (pc = "once" /\ Len(conversation_history) < Len(request.history)) =>
        LET kept == SelectSeq(conversation_history, IsSystem)
            contexts == FileContextsOf(request.history)
            k == Len(contexts)
            n == IF k < 3 THEN k ELSE 3
        IN  /\ kept # <<>>
            /\ kept[1] = request.history[1]
            /\ Tail(kept) = SubSeq(contexts, k - n + 1, k)

\* a history with four file contexts and another system entry was shortened
C14_Witness ==
    /\ pc = "once"
    /\ Len(conversation_history) < Len(request.history)
    /\ Len(FileContextsOf(request.history)) = 4
    /\ FileContextsOf(request.history)[1] # FileContextsOf(request.history)[2]

(***************************************************************************)
(* File contexts on their own: SpecContext has a directory of files and    *)
(* adds file contexts by /add of a file, by ingestion of the directory     *)
(* (/add of a directory, /folder) and by edit_file's                       *)
(* ensure_file_in_context.                                                 *)
(***************************************************************************)
\* the directory that is ingested and the names os.walk lists in it
DirPath == <<"/", "w", "d">>

DirNames ==
    <<"f1", "f2", "f3", "f4", "f5", "f6", "f7",
      ".env", "logo.png", "uv.lock", "bin", "big">>

\* seq reversed
RECURSIVE Reverse(_)
Reverse(seq) == IF seq = <<>> THEN <<>> ELSE Reverse(Tail(seq)) \o <<Head(seq)>>

\* os.walk promises no order of the files of a directory
DirListings == {DirNames, Reverse(DirNames)}

DirFile(name) == DirPath \o <<name>>

CtxPaths == {DirFile(DirNames[i]) : i \in 1..Len(DirNames)}

\* the bytes of the files: one with a NUL byte, one over the size limit of
\* the directory scan
FileData(name) ==
    CASE name = "bin" -> <<"NUL">>
      [] name = "big" -> <<"a", "a", "a">>
      [] OTHER -> <<"a">>

\* file.startswith('.'), excluded_files and excluded_extensions (src l.615-616,
\* l.624) for the names of the directory
StartsWithDot(name) == name \in {".env"}

excluded_files == {".DS_Store", "Thumbs.db", ".gitignore", "uv.lock", ".env"}

ExtensionOf(name) == IF name = "logo.png" THEN ".png" ELSE ""

excluded_extensions == {".png", ".jpg", ".zip", ".pyc", ".exe"}

\* is_binary_file: a NUL byte in the first bytes of the file
is_binary_file(fs, path) ==
    IF ~fs[path].exists THEN TRUE
    ELSE \E i \in 1..Len(fs[path].data) : fs[path].data[i] = "NUL"

\* the loop over the files of add_directory_to_conversation (src l.618-633):
\* the history after it and the list of added paths
RECURSIVE AddDirectoryLoop(_, _, _, _)
AddDirectoryLoop(history, fs, listing, total_processed) ==
    IF listing = <<>> \/ total_processed >= MAX_FILES_IN_ADD_DIR
    THEN [history |-> history, added |-> <<>>]
    ELSE LET file == Head(listing)
             full_path == DirFile(file)
             norm_path == normalize_path(full_path)
             rd == read_local_file(fs, norm_path)
             skip == AddDirectoryLoop(history, fs, Tail(listing), total_processed)
             rest == AddDirectoryLoop(
                         add_file_context_smartly(history, norm_path, rd.text),
                         fs, Tail(listing), total_processed + 1)
         IN  IF StartsWithDot(file) \/ file \in excluded_files
                \/ ExtensionOf(file) \in excluded_extensions
             THEN skip
             ELSE IF ~fs[full_path].exists THEN skip
             ELSE IF Len(fs[full_path].data) > MAX_FILE_SIZE_IN_ADD_DIR THEN skip
             ELSE IF is_binary_file(fs, full_path) THEN skip
             ELSE [history |-> rest.history, added |-> <<norm_path>> \o rest.added]

add_directory_to_conversation(history, fs, listing) ==
    AddDirectoryLoop(history, fs, listing, 0)

\* the paths given to /add of a file and to edit_file
AddablePaths == {DirFile("f1"), DirFile("f7"), DirFile(".env"), DirFile("big")}

InitContext ==
    /\ DriverIdle
    /\ os_linesep = <<"LF">>
    /\ files = [q \in CtxPaths |-> FileOf(FileData(q[Len(q)]))]
    /\ git_context = GitOff
    /\ git_repo = NoRepo
    /\ request = [op |-> "none", added |-> {}, listing |-> <<>>]
    /\ before = <<>>
    /\ file_history = <<>>
    /\ pc = "prompt"

ctxUnchanged ==
    UNCHANGED <<files, git_context, git_repo, os_linesep, pc,
                full_response_content, accumulated_tool_calls, valid_tool_calls,
                tool_idx, delivered, last_output, turns, before, file_history>>

\* try_handle_add_command on a file (src l.471-488)
AddFileCommand ==
    /\ pc = "prompt"
    /\ \E path_to_add \in AddablePaths :
          LET normalized_path == normalize_path(path_to_add)
          IN  /\ files[normalized_path].exists
              /\ conversation_history' =
                    add_file_context_smartly(conversation_history, normalized_path,
                        read_local_file(files, normalized_path).text)
              /\ request' = [op |-> "add_file", added |-> {normalized_path},
                             listing |-> <<>>]
    /\ ctxUnchanged

\* try_handle_add_command on a directory, try_handle_folder_command
AddDirectory ==
    /\ pc = "prompt"
    /\ \E listing \in DirListings :
          LET r == add_directory_to_conversation(conversation_history, files, listing)
          IN  /\ conversation_history' = r.history
              /\ request' = [op |-> "add_directory",
                             added |-> {r.added[i] : i \in 1..Len(r.added)},
                             listing |-> listing]
    /\ ctxUnchanged

\* the ensure_file_in_context call of edit_file (src l.982)
EnsureInContext ==
    /\ pc = "prompt"
    /\ \E file_path \in AddablePaths :
          LET r == ensure_file_in_context(conversation_history, files, file_path)
          IN  /\ r.ok
              /\ conversation_history' = r.history
              /\ request' = [op |-> "ensure_file_in_context",
                             added |-> {normalize_path(file_path)},
                             listing |-> <<>>]
    /\ ctxUnchanged

NextContext == AddFileCommand \/ AddDirectory \/ EnsureInContext

SpecContext == InitContext /\ [][NextContext]_vars

\* msg is the file-context entry of the file at path
HeadedBy(msg, path) ==
    /\ msg.role = "system"
    /\ Len(msg.content) >= Len(path) + 3
    /\ SubSeq(msg.content, 1, Len(path) + 3) = <<"User added file", "'">> \o path \o <<"'">>

\* the positions of the file-context entries of a history
ContextPositions(history) ==
    {i \in 1..Len(history) :
        /\ history[i].role = "system"
        /\ history[i].content # <<>>
        /\ history[i].content[1] = "User added file"}

\* at most one file context per path, at most 5 in all, the prompt in place
ContextsWithinCap ==
    /\ conversation_history[1] = SystemPrompt
    /\ \A p \in CtxPaths :
          Cardinality({i \in 1..Len(conversation_history) :
                          HeadedBy(conversation_history[i], p)}) <= 1
    /\ Cardinality(ContextPositions(conversation_history)) <= 5

\* of two file contexts that an addition does not renew, the older one is
\* never kept while the newer one is evicted
OldestEvictedFirst ==
    \A i, j \in ContextPositions(conversation_history) :
        (/\ i < j
         /\ \A p \in request'.added :
               /\ ~HeadedBy(conversation_history[i], p)
               /\ ~HeadedBy(conversation_history[j], p)
         /\ \E k \in 1..Len(conversation_history') :
               conversation_history'[k] = conversation_history[i])
        => \E k \in 1..Len(conversation_history') :
               conversation_history'[k] = conversation_history[j]

\* C15: after any sequence of file-context additions the history holds at
\* most one file-context entry per path and at most 5 in total, an addition
\* over the cap evicts the oldest file-context entries first, and the first
\* entry (the system prompt) is never removed or changed.
C15_FileContextsCappedAndUnique ==
    []ContextsWithinCap /\ [][OldestEvictedFirst]_vars

\* the cap is reached, and the oldest context has been evicted by a later
\* addition of another file
C15_Witness ==
    /\ Cardinality(ContextPositions(conversation_history)) = 5
    /\ request.op = "add_file"
    /\ request.added = {DirFile(".env")}
    /\ \A i \in 1..Len(conversation_history) :
          ~HeadedBy(conversation_history[i], DirFile("f1"))
    /\ \E i \in 1..Len(conversation_history) :
          HeadedBy(conversation_history[i], DirFile("f7"))

\* the names of a listing the directory scan has to accept: not excluded by
\* name or extension, not binary, within the size and the count limit
RECURSIVE AcceptedNames(_, _)
AcceptedNames(listing, count) ==
    IF listing = <<>> \/ count >= MAX_FILES_IN_ADD_DIR THEN {}
    ELSE LET name == Head(listing)
             data == files[DirFile(name)].data
             fits == /\ name \notin {".env", "logo.png", "uv.lock"}
                     /\ Len(data) <= MAX_FILE_SIZE_IN_ADD_DIR
                     /\ \A i \in 1..Len(data) : data[i] # "NUL"
         IN  IF fits THEN {name} \cup AcceptedNames(Tail(listing), count + 1)
             ELSE AcceptedNames(Tail(listing), count)

\* C16: after add_directory_to_conversation finishes on a directory, every
\* file it accepted has exactly one file-context entry in the history, also
\* when the directory is ingested a second time.
C16_DirectoryFilesAllInContext ==
    request.op = "add_directory" =>
        \A name \in AcceptedNames(request.listing, 0) :
            Cardinality({i \in 1..Len(conversation_history) :
                            HeadedBy(conversation_history[i], DirFile(name))}) = 1

(***************************************************************************)
(* create_file on its own: SpecCreate draws a filesystem with a directory  *)
(* x that may be missing, a git state, a path and a content, and calls     *)
(* create_file once.                                                       *)
(***************************************************************************)
DirX == <<"/", "w", "x">>

DirTilde == <<"/", "w", "~x">>

\* the path strings given to create_file
CreateRawPaths == {<<"a.txt">>, <<"x", "y.txt">>, <<"~b.txt">>, <<"~x", "y.txt">>}

CreatePaths ==
    {normalize_path(p) : p \in CreateRawPaths} \cup {DirX, DirTilde}

\* what a staging attempt can come to
StageResults == StageOutcomes \cup {"outside_repo", "no_git"}

InitCreate ==
    /\ DriverIdle
    /\ os_linesep \in LineSeps
    /\ \E x \in {Absent, Directory}, old \in {Absent, FileOf(<<"a", "LF">>)} :
          files = [q \in CreatePaths |->
                      IF q \in {DirX, DirTilde} THEN x
                      ELSE IF q = PathA \/ (x.exists /\ Len(q) = 4) THEN old
                      ELSE Absent]
    /\ \E on \in BOOLEAN, skip \in BOOLEAN :
          git_context = [GitOff EXCEPT !.enabled = on, !.skip_staging = skip]
    /\ git_repo = [NoRepo EXCEPT !.repo = TRUE]
    /\ request \in [op : {"create_file"}, path : CreateRawPaths,
                     content : SeqsUpTo(Chars, MAX_FILE_CONTENT_SIZE_CREATE + 1)]
    /\ before = files
    /\ file_history = <<>>
    /\ pc = "call"

\* one call of create_file; last_output keeps what was raised and what the
\* staging attempt came to
CreateFile ==
    /\ pc = "call"
    /\ request.op = "create_file"
    /\ \E stage_rc \in StageResults :
          LET r == create_file(files, git_context, git_repo, os_linesep,
                               request.path, request.content, stage_rc)
          IN  /\ files' = r.fs
              /\ git_repo' = r.repo
              /\ last_output' = <<r.exc, stage_rc>>
    /\ pc' = "done"
    /\ UNCHANGED <<conversation_history, git_context, os_linesep,
                   full_response_content, accumulated_tool_calls,
                   valid_tool_calls, tool_idx, delivered, turns, request, before,
                   file_history>>

NextCreate == CreateFile

SpecCreate == InitCreate /\ [][NextCreate]_vars

\* a segment of the path starts with '~'
HasTildeSegment(path) ==
    \E k \in 1..Len(path) : path[k] \in {"~b.txt", "~x"}

\* C17: create_file rejects a path with a segment starting with '~' and a
\* content longer than the ceiling, and then creates no directory and writes
\* no file; otherwise it creates the missing parent directory, overwrites an
\* existing file and leaves the file containing exactly the given content.
C17_CreateFileWritesExactlyTheContent ==
    (pc = "done" /\ request.op = "create_file") =>
        LET p == normalize_path(request.path)
            parent == SubSeq(p, 1, Len(p) - 1)
        IN  IF HasTildeSegment(request.path)
               \/ Len(request.content) > MAX_FILE_CONTENT_SIZE_CREATE
            THEN last_output[1] # "none" /\ files = before
            ELSE /\ last_output[1] = "none"
                 /\ files[p] = FileOf(request.content)
                 /\ parent \in DOMAIN files => files[parent] = Directory
                 /\ \A q \in CreatePaths \ {p, parent} : files[q] = before[q]

\* C20: while git is enabled and skip_staging is off, a successful
\* create_file attempts to stage the written file after the write; a failed
\* or impossible staging attempt does not undo the write, raises nothing out
\* of create_file and does not turn the create into a failure.
C20_StagingIsBestEffort ==
    (pc = "done" /\ request.op = "create_file"
        /\ git_context.enabled /\ ~git_context.skip_staging
        /\ ~HasTildeSegment(request.path)
        /\ Len(request.content) <= MAX_FILE_CONTENT_SIZE_CREATE)
    => LET p == normalize_path(request.path)
       IN  /\ last_output[1] = "none"
           /\ files[p].exists
           /\ files[p].data = WriteTranslate(request.content, os_linesep)
           /\ last_output[2] = "ok" => p \in git_repo.staged
           /\ last_output[2] # "ok" => git_repo.staged = {}

\* a file was written although its staging failed
C20_Witness ==
    /\ pc = "done"
    /\ request.op = "create_file"
    /\ git_context.enabled /\ ~git_context.skip_staging
    /\ last_output = <<"none", "failed">>
    /\ request.content # <<>>
    /\ files[normalize_path(request.path)] # before[normalize_path(request.path)]
    /\ git_repo.staged = {}

(***************************************************************************)
(* The git session: SpecGit starts where the entry point leaves            *)
(* git_context and then runs git tool calls and local git commands, one    *)
(* per step.  request keeps the operation of the last step and whether     *)
(* some step so far has found the git executable missing.                  *)
(***************************************************************************)
MaxGitSteps == 3

\* the entry point (src l.1122-1134): an existing .git enables git, and the
\* branch query disables it again when the executable is missing
StartupGitContext(repo) ==
    IF ~repo.repo \/ ~repo.installed THEN GitOff
    ELSE [GitOff EXCEPT !.enabled = TRUE,
                        !.branch = IF repo.current # "" THEN repo.current
                                   ELSE "main"]

CommandResult(gc, repo, git_not_found) ==
    [gc |-> gc, repo |-> repo, git_not_found |-> git_not_found]

\* user_commit_changes: changed is what `git add -A` finds to stage
user_commit_changes(gc, repo, changed, rc) ==
    IF ~gc.enabled THEN CommandResult(gc, repo, FALSE)
    ELSE IF ~repo.installed
    THEN CommandResult([gc EXCEPT !.enabled = FALSE], repo, TRUE)
    ELSE IF ~repo.repo THEN CommandResult(gc, repo, FALSE)
    ELSE LET staged == repo.staged \cup changed
         IN  IF staged = {} THEN CommandResult(gc, repo, FALSE)
             ELSE IF rc = "ok"
             THEN CommandResult(gc, [repo EXCEPT !.committed = @ \cup staged,
                                                 !.staged = {}], FALSE)
             ELSE CommandResult(gc, [repo EXCEPT !.staged = staged], FALSE)

\* initialize_git_repo_cmd: make_gitignore and initial_commit are the
\* answers to its two prompts
initialize_git_repo_cmd(gc, repo, make_gitignore, initial_commit, changed, rc) ==
    IF repo.repo THEN CommandResult([gc EXCEPT !.enabled = TRUE], repo, FALSE)
    ELSE IF ~repo.installed
    THEN CommandResult([gc EXCEPT !.enabled = FALSE], repo, TRUE)
    ELSE IF rc = "failed" THEN CommandResult(gc, repo, FALSE)
    ELSE LET gc1 == [gc EXCEPT !.enabled = TRUE, !.branch = "main"]
             repo1 == [repo EXCEPT !.repo = TRUE]
             repo2 == IF ~repo1.gitignore /\ make_gitignore
                      THEN stage_file(gc1, [repo1 EXCEPT !.gitignore = TRUE],
                                      GitIgnorePath, "ok").repo
                      ELSE IF repo1.gitignore
                      THEN stage_file(gc1, repo1, GitIgnorePath, "ok").repo
                      ELSE repo1
         IN  IF initial_commit THEN user_commit_changes(gc1, repo2, changed, "ok")
             ELSE CommandResult(gc1, repo2, FALSE)

\* create_git_branch_cmd: switch is the answer to its prompt
create_git_branch_cmd(gc, repo, branch_name, switch, rc) ==
    IF ~gc.enabled \/ branch_name = "" THEN CommandResult(gc, repo, FALSE)
    ELSE IF ~repo.installed
    THEN CommandResult([gc EXCEPT !.enabled = FALSE], repo, TRUE)
    ELSE IF repo.repo /\ branch_name \in repo.branches
    THEN IF repo.current # branch_name /\ switch /\ rc = "ok"
         THEN CommandResult([gc EXCEPT !.branch = branch_name],
                            [repo EXCEPT !.current = branch_name], FALSE)
         ELSE CommandResult(gc, repo, FALSE)
    ELSE IF rc = "failed" \/ ~repo.repo THEN CommandResult(gc, repo, FALSE)
    ELSE CommandResult([gc EXCEPT !.branch = branch_name],
                       [repo EXCEPT !.current = branch_name,
                                    !.branches = @ \cup {branch_name}], FALSE)

\* show_git_status_cmd with get_git_status_porcelain: only the console and,
\* with the executable missing, git_context change
show_git_status_cmd(gc, repo) ==
    IF ~gc.enabled THEN CommandResult(gc, repo, FALSE)
    ELSE IF ~repo.installed
    THEN CommandResult([gc EXCEPT !.enabled = FALSE], repo, TRUE)
    ELSE CommandResult(gc, repo, FALSE)

\* the tool calls of the session: every git tool and a create_file
GitCalls ==
    {[id |-> <<1, 0>>, name |-> "git_init", arguments |-> <<"{", "}">>],
     [id |-> <<1, 0>>, name |-> "git_add",
      arguments |-> <<"{", "file_paths:[a.txt,~b.txt]", "}">>],
     [id |-> <<1, 0>>, name |-> "git_commit", arguments |-> <<"{", "}">>],
     [id |-> <<1, 0>>, name |-> "git_commit",
      arguments |-> <<"{", "message:m", "}">>],
     [id |-> <<1, 0>>, name |-> "git_create_branch",
      arguments |-> <<"{", "branch_name:dev", "}">>],
     [id |-> <<1, 0>>, name |-> "git_status", arguments |-> <<"{", "}">>],
     [id |-> <<1, 0>>, name |-> "create_file",
      arguments |-> <<"{", "file_path:a.txt", "content:a", "}">>]}

InitGit ==
    /\ conversation_history = <<SystemPrompt>>
    /\ full_response_content = <<>>
    /\ accumulated_tool_calls = <<>>
    /\ valid_tool_calls = <<>>
    /\ tool_idx = 0
    /\ delivered = <<>>
    /\ last_output = <<>>
    /\ turns = 0
    /\ os_linesep = <<"LF">>
    /\ files = [q \in Paths |-> Absent]
    /\ \E inst \in BOOLEAN, rep \in BOOLEAN :
          /\ git_repo = [NoRepo EXCEPT !.installed = inst, !.repo = rep]
          /\ git_context = StartupGitContext(git_repo)
          /\ request = [op |-> "startup", git_not_found |-> rep /\ ~inst]
    /\ before = files
    /\ file_history = <<>>
    /\ pc = "prompt"

gitUnchanged ==
    UNCHANGED <<os_linesep, pc, full_response_content, accumulated_tool_calls,
                valid_tool_calls, tool_idx, delivered, before, file_history>>

\* the effect of a local command on the state
Commanded(op, r) ==
    /\ git_context' = r.gc
    /\ git_repo' = r.repo
    /\ request' = [op |-> op,
                   git_not_found |-> request.git_not_found \/ r.git_not_found]
    /\ last_output' = <<>>
    /\ turns' = turns + 1
    /\ UNCHANGED <<conversation_history, files>>
    /\ gitUnchanged

\* src l.1088-1095: one git tool call handed to execute_function_call_dict
GitToolCall ==
    /\ turns < MaxGitSteps
    /\ \E call \in GitCalls, stage_rc \in StageOutcomes, rc \in StageOutcomes :
          LET r == execute_function_call_dict(call, conversation_history, files,
                       git_context, git_repo, os_linesep, stage_rc, rc)
          IN  /\ conversation_history' = r.history
              /\ files' = r.fs
              /\ git_context' = r.gc
              /\ git_repo' = r.repo
              /\ last_output' = r.out
              /\ request' = [op |-> call.name,
                             git_not_found |->
                                 \/ request.git_not_found
                                 \/ /\ Len(r.out) >= 2
                                    /\ r.out[2] = "FileNotFoundError"]
    /\ turns' = turns + 1
    /\ gitUnchanged

\* /git init
GitInitCommand ==
    /\ turns < MaxGitSteps
    /\ \E make_gitignore \in BOOLEAN, initial_commit \in BOOLEAN,
          changed \in {{}, {PathA}}, rc \in StageOutcomes :
          Commanded("/git init",
                    initialize_git_repo_cmd(git_context, git_repo, make_gitignore,
                                            initial_commit, changed, rc))

\* /commit m
CommitCommand ==
    /\ turns < MaxGitSteps
    /\ \E changed \in {{}, {PathA}}, rc \in StageOutcomes :
          Commanded("/commit",
                    user_commit_changes(git_context, git_repo, changed, rc))

\* /git branch dev
GitBranchCommand ==
    /\ turns < MaxGitSteps
    /\ \E switch \in BOOLEAN, rc \in StageOutcomes :
          Commanded("/git branch",
                    create_git_branch_cmd(git_context, git_repo, "dev", switch, rc))

\* /git status
GitStatusCommand ==
    /\ turns < MaxGitSteps
    /\ Commanded("/git status", show_git_status_cmd(git_context, git_repo))

NextGit ==
    \/ GitToolCall
    \/ GitInitCommand
    \/ CommitCommand
    \/ GitBranchCommand
    \/ GitStatusCommand

SpecGit == InitGit /\ [][NextGit]_vars

\* C18: once a missing git executable has been found and enabled set to
\* False for it, enabled is False in every later state of the session,
\* whatever tool calls and local commands follow.
C18_GitStaysDisabledOnceNotFound ==
    request.git_not_found => ~git_context.enabled

\* C19: a git_commit tool call with an arguments object, made while git is
\* enabled and the staged check finds nothing staged, returns the text that
\* tells so and changes neither git_context nor the repository.
C19_CommitWithNothingStagedIsNoOp ==
    [][(/\ request'.op = "git_commit"
        /\ git_context.enabled
        /\ git_repo.installed
        /\ git_repo.repo
        /\ git_repo.staged = {})
       => /\ last_output' = <<"No changes staged. Use git_add first.">>
          /\ git_context' = git_context
          /\ git_repo' = git_repo]_vars

C19_Witness ==
    /\ request.op = "git_commit"
    /\ last_output = <<"No changes staged. Use git_add first.">>
    /\ git_context.enabled
    /\ git_repo.installed
    /\ git_repo.repo
    /\ git_repo.staged = {}
    /\ git_repo.committed # {}

(***************************************************************************)
(* read_multiple_files, seen from its result text.                         *)
(***************************************************************************)
\* "="*20 + " FILE SEP " + "="*20
SepMarker == "==== FILE SEP ===="

\* the segment a path is owed: its content, or an error description
SegmentOf(fs, fp) ==
    IF fs[normalize_path(fp)].exists /\ ~fs[normalize_path(fp)].dir
    THEN <<"Content of", fp[Len(fp)]>> \o ReadTranslate(fs[normalize_path(fp)].data)
    ELSE <<"Error reading", fp[Len(fp)]>>

\* text holds the segments one after another, in order; with marked, the
\* separator marker stands between every two consecutive segments
SegmentsInOrder(text, segs, marked) ==
    \E pos \in [1..Len(segs) -> 1..Len(text)] :
        /\ \A k \in 1..Len(segs) :
              /\ pos[k] + Len(segs[k]) - 1 <= Len(text)
              /\ SubSeq(text, pos[k], pos[k] + Len(segs[k]) - 1) = segs[k]
        /\ \A k \in 1..(Len(segs) - 1) :
              /\ pos[k] + Len(segs[k]) <= pos[k + 1]
              /\ marked =>
                    \E j \in (pos[k] + Len(segs[k]))..(pos[k + 1] - 1) :
                        text[j] = SepMarker

ReadMultipleDone ==
    /\ pc = "done"
    /\ request.name = "read_multiple_files"
    /\ request.arguments = <<"{", "file_paths:[a.txt,~b.txt]", "}">>

\* C21: the result of read_multiple_files on n paths holds n segments in
\* request order, an unreadable path's segment being an error description,
\* with the separator marker between every two consecutive segments.
C21_SegmentsJoinedBySeparator ==
    ReadMultipleDone =>
        LET file_paths == MemberValue("file_paths:[a.txt,~b.txt]")
            segs == [k \in 1..Len(file_paths) |-> SegmentOf(files, file_paths[k])]
        IN  SegmentsInOrder(last_output, segs, TRUE)

(***************************************************************************)
(* More about truncation, under SpecTruncate.                              *)
(***************************************************************************)
\* a is b with some entries left out
RECURSIVE IsSubsequence(_, _)
IsSubsequence(a, b) ==
    IF a = <<>> THEN TRUE
    ELSE IF b = <<>> THEN FALSE
    ELSE IF Head(a) = Head(b) THEN IsSubsequence(Tail(a), Tail(b))
    ELSE IsSubsequence(a, Tail(b))

\* C22: the result of smart_truncate_history is an order-preserving
\* subsequence of its input: entries are removed, none is moved or edited,
\* also when file contexts were appended after other entries.
C22_TruncationOnlyRemoves ==
    pc = "once" => IsSubsequence(conversation_history, request.history)

\* C25: with a budget that has room for the system entries truncation keeps
\* (50 in the program), the result of smart_truncate_history is never longer
\* than the budget, also when a pulled-in tool run grew the kept suffix.
C25_TruncatedWithinBudget ==
    (pc \in {"once", "twice"} /\ request.max_messages >= 1 + KEEP_FILE_CONTEXTS)
        => Len(conversation_history) <= request.max_messages

\* the loop kept more than its quota because of a tool run, and the final
\* check cut the history down to the budget
C25_Witness ==
    /\ pc = "once"
    /\ request.max_messages >= 1 + KEEP_FILE_CONTEXTS
    /\ Len(request.history) > request.max_messages
    /\ Len(KeepMessages(request.history, request.max_messages))
          > request.max_messages
              - Len(ImportantSystem(SelectSeq(request.history, IsSystem)))
    /\ Len(conversation_history) = request.max_messages
    /\ \E i \in 1..Len(conversation_history) : IsTool(conversation_history[i])

\* C26: the non-system entries smart_truncate_history retains are a
\* contiguous suffix of the input's non-system entries.
C26_KeptEntriesAreSuffix ==
    pc = "once" =>
        LET others == SelectSeq(request.history, IsNotSystem)
            kept == SelectSeq(conversation_history, IsNotSystem)
        IN  /\ Len(kept) <= Len(others)
            /\ kept = SubSeq(others, Len(others) - Len(kept) + 1, Len(others))

\* some but not all of the non-system entries were retained
C26_Witness ==
    /\ pc = "once"
    /\ Len(conversation_history) < Len(request.history)
    /\ SelectSeq(conversation_history, IsNotSystem) # <<>>
    /\ Len(SelectSeq(conversation_history, IsNotSystem))
          < Len(SelectSeq(request.history, IsNotSystem))
    /\ SelectSeq(conversation_history, IsNotSystem)[1]
          # SelectSeq(request.history, IsNotSystem)[1]

(***************************************************************************)
(* The driver again: what the model has been sent.                         *)
(***************************************************************************)
\* the messages of the latest model request hold the entry
SentToModel(msg) == \E j \in 1..Len(request) : request[j] = msg

\* C24: when a turn that dispatched tool calls is completed and the driver
\* goes back to the prompt, the tool results of the turn have been sent to
\* the model in a request of that turn.
C24_ToolResultsSentWithinTurn ==
    [][Truncate =>
          \A i \in 1..Len(conversation_history) :
              IsTool(conversation_history[i]) => SentToModel(conversation_history[i])]_vars

\* the ids of the tool calls an entry carries
CallIds(msg) == {msg.tool_calls[n].id : n \in 1..Len(msg.tool_calls)}

\* C27: in every list of messages sent to the model, the tool results of an
\* assistant entry follow it contiguously: no entry of another role stands
\* between an assistant entry with tool calls and any of its tool results.
C27_ToolResultsContiguous ==
    \A i \in 1..Len(request) : \A k \in (i + 1)..Len(request) :
        (/\ request[i].role = "assistant"
         /\ request[k].role = "tool"
         /\ request[k].tool_call_id \in CallIds(request[i]))
        => \A j \in (i + 1)..(k - 1) : request[j].role = "tool"

(***************************************************************************)
(* edit_file and the file context, under SpecDispatch.                     *)
(***************************************************************************)
\* C28: after an edit_file tool call that changed the file, the history
\* holds a file-context entry of that path with the file's current content.
C28_ContextHoldsEditedContent ==
    (pc = "done" /\ request.name = "edit_file" /\ files[PathA] # before[PathA])
    => \E i \in 1..Len(conversation_history) :
           conversation_history[i]
               = FileContextEntry(PathA, read_local_file(files, PathA).text)

(***************************************************************************)
(* src/main.py: the structured-output program, its file_history and /undo. *)
(* SpecMain runs main's loop: a model reply with files to create and       *)
(* snippet edits to confirm, or an /undo command, one per step.  before    *)
(* is the log of the filesystem as it was before each recorded change.     *)
(***************************************************************************)
MaxMainSteps == 3

\* the largest N of /undo N the model enters
MaxUndos == 3

\* an entry of file_history; the backup None of a creation is <<>>
HistoryEntry(action_type, path, backup_content) ==
    [action_type |-> action_type, path |-> path, backup_content |-> backup_content]

\* create_file of main.py
main_create_file(fs, history, linesep, path, content) ==
    [fs |-> [fs EXCEPT ![path] = FileOf(WriteTranslate(content, linesep))],
     history |-> Append(history,
                        IF fs[path].exists
                        THEN HistoryEntry("edit", path, ReadTranslate(fs[path].data))
                        ELSE HistoryEntry("create", path, <<>>))]

\* apply_diff_edit of main.py
main_apply_diff_edit(fs, history, linesep, path, original_snippet, new_snippet) ==
    IF ~fs[path].exists THEN [fs |-> fs, history |-> history]
    ELSE LET content == ReadTranslate(fs[path].data)
         IN  IF Contains(content, original_snippet)
             THEN main_create_file(fs,
                      Append(history, HistoryEntry("edit", path, content)),
                      linesep, path,
                      StrReplaceFirst(content, original_snippet, new_snippet))
             ELSE [fs |-> fs, history |-> history]

\* file_history.pop()
Pop(history) == SubSeq(history, 1, Len(history) - 1)

\* the for loop of undo_last_change; a failing unlink breaks the loop
RECURSIVE UndoLoop(_, _, _, _)
UndoLoop(fs, history, linesep, n) ==
    IF n <= 0 \/ history = <<>> THEN [fs |-> fs, history |-> history]
    ELSE LET last_action == history[Len(history)]
             path == last_action.path
             cr == main_create_file(fs, history, linesep, path,
                                    last_action.backup_content)
         IN  IF last_action.action_type = "create"
             THEN IF fs[path].exists
                  THEN UndoLoop([fs EXCEPT ![path] = Absent], Pop(history),
                                linesep, n - 1)
                  ELSE [fs |-> fs, history |-> history]
             ELSE UndoLoop(cr.fs, Pop(cr.history), linesep, n - 1)

undo_last_change(fs, history, linesep, num_undos) ==
    UndoLoop(fs, history, linesep, num_undos)

\* answer.strip().lower() for the answers the model enters
StripLower(answer) == IF answer \in {"Y", " y "} THEN "y" ELSE answer

\* a confirmation that takes everything but 'n' for a yes
ConfirmedUnlessNo(answer) == answer # "n"

\* console.input(...).strip().lower() == 'y'
Confirmed(answer) == StripLower(answer) = "y"

\* the for loop over files_to_create; log gets the filesystem before each
RECURSIVE RunCreates(_, _, _, _, _)
RunCreates(fs, history, log, linesep, files_to_create) ==
    IF files_to_create = <<>> THEN [fs |-> fs, history |-> history, log |-> log]
    ELSE LET file_info == Head(files_to_create)
             cr == main_create_file(fs, history, linesep, file_info.path,
                                    file_info.content)
         IN  RunCreates(cr.fs, cr.history, Append(log, fs), linesep,
                        Tail(files_to_create))

\* the for loop over files_to_edit; log gets the filesystem before each
\* edit that is applied
RECURSIVE RunEdits(_, _, _, _, _)
RunEdits(fs, history, log, linesep, files_to_edit) ==
    IF files_to_edit = <<>> THEN [fs |-> fs, history |-> history, log |-> log]
    ELSE LET edit_info == Head(files_to_edit)
             ed == main_apply_diff_edit(fs, history, linesep, edit_info.path,
                       edit_info.original_snippet, edit_info.new_snippet)
         IN  RunEdits(ed.fs, ed.history,
                      IF ed.history # history THEN Append(log, fs) ELSE log,
                      linesep, Tail(files_to_edit))

\* the edits stream_openai_response keeps: those whose file can be read
ReadableEdits(fs, files_to_edit) ==
    LET Readable(edit) == fs[edit.path].exists
    IN  SelectSeq(files_to_edit, Readable)

\* the replies of the remote model
RepliesToCreate ==
    {<<>>,
     <<[path |-> PathA, content |-> <<"a">>]>>,
     <<[path |-> PathA, content |-> <<"a", "LF">>]>>,
     <<[path |-> PathTilde, content |-> <<"a">>]>>}

RepliesToEdit ==
    {<<>>,
     <<[path |-> PathA, original_snippet |-> <<"a">>, new_snippet |-> <<"LF">>]>>,
     <<[path |-> PathTilde, original_snippet |-> <<"a">>,
        new_snippet |-> <<"a", "a">>]>>}

Answers == {"y", "Y", "n", "yes"}

InitMain ==
    /\ DriverIdle
    /\ os_linesep \in LineSeps
    /\ \E f \in {Absent, FileOf(<<"a">>), FileOf(<<"a", "CR", "LF">>)} :
          files = [q \in Paths |-> IF q = PathA THEN f ELSE Absent]
    /\ git_context = GitOff
    /\ git_repo = NoRepo
    /\ request = [op |-> "start", files_to_create |-> <<>>, files_to_edit |-> <<>>,
                  confirm |-> "", changes |-> 0, num_undos |-> 0]
    /\ before = <<>>
    /\ file_history = <<>>
    /\ pc = "prompt"

mainUnchanged ==
    UNCHANGED <<conversation_history, git_context, git_repo, os_linesep, pc,
                full_response_content, accumulated_tool_calls, valid_tool_calls,
                tool_idx, delivered, last_output>>

\* src/main.py l.329-374: a reply of the model, its creations, the
\* confirmation prompt and its edits
ModelReply ==
    /\ turns < MaxMainSteps
    /\ \E to_create \in RepliesToCreate, to_edit \in RepliesToEdit,
          confirm \in Answers :
          LET files_to_edit == ReadableEdits(files, to_edit)
              created == RunCreates(files, file_history, before, os_linesep,
                                    to_create)
              edited == IF files_to_edit # <<>> /\ Confirmed(confirm)
                        THEN RunEdits(created.fs, created.history, created.log,
                                      os_linesep, files_to_edit)
                        ELSE created
          IN  /\ files' = edited.fs
              /\ file_history' = edited.history
              /\ before' = edited.log
              /\ request' = [op |-> "reply", files_to_create |-> to_create,
                             files_to_edit |-> files_to_edit,
                             confirm |-> IF files_to_edit # <<>> THEN confirm ELSE "",
                             changes |-> Len(edited.log) - Len(before),
                             num_undos |-> 0]
    /\ turns' = turns + 1
    /\ mainUnchanged

\* src/main.py l.322-328: /undo N; the log drops the changes asked to undo
UndoCommand ==
    /\ turns < MaxMainSteps
    /\ \E num_undos \in 0..MaxUndos :
          LET r == IF file_history = <<>>
                   THEN [fs |-> files, history |-> file_history]
                   ELSE undo_last_change(files, file_history, os_linesep, num_undos)
          IN  /\ files' = r.fs
              /\ file_history' = r.history
              /\ before' = SubSeq(before, 1,
                                  IF num_undos >= Len(before) THEN 0
                                  ELSE Len(before) - num_undos)
              /\ request' = [op |-> "undo", files_to_create |-> <<>>,
                             files_to_edit |-> <<>>, confirm |-> "",
                             changes |-> 0, num_undos |-> num_undos]
    /\ turns' = turns + 1
    /\ mainUnchanged

NextMain == ModelReply \/ UndoCommand

SpecMain == InitMain /\ [][NextMain]_vars

\* C23: after k recorded changes, /undo N with N <= k puts the files back in
\* the state they had before the N most recent changes and removes N
\* entries from file_history, so that a further undo goes on with the next
\* older change.
C23_UndoRevertsLatestChanges ==
    [][(request'.op = "undo" /\ request'.num_undos \in 1..Len(before))
       => /\ files' = before[Len(before) - request'.num_undos + 1]
          /\ Len(file_history') <= Len(file_history) - request'.num_undos]_vars

\* C29: one recorded change followed by one undo leaves the filesystem as
\* it was before the change, and an undo on an empty file_history changes
\* nothing.
C29_ChangeThenUndoIsRoundTrip ==
    [][/\ (/\ request'.op = "undo" /\ request'.num_undos = 1
           /\ request.op = "reply" /\ request.changes = 1)
          => files' = before[Len(before)]
       /\ (request'.op = "undo" /\ file_history = <<>>)
          => (files' = files /\ file_history' = <<>>)]_vars

\* C30: when the answer to the confirmation prompt is not a 'y' (in either
\* case, blanks aside), no snippet edit runs: a file named only in
\* files_to_edit is left as it was and file_history gains only the entries
\* of the creations.
C30_EditsNeedConfirmation ==
    [][(/\ request'.op = "reply"
        /\ request'.files_to_edit # <<>>
        /\ StripLower(request'.confirm) # "y")
       => /\ \A k \in 1..Len(request'.files_to_edit) :
                (\A n \in 1..Len(request'.files_to_create) :
                    request'.files_to_create[n].path
                        # request'.files_to_edit[k].path)
                => files'[request'.files_to_edit[k].path]
                      = files[request'.files_to_edit[k].path]
          /\ Len(file_history')
                = Len(file_history) + Len(request'.files_to_create)]_vars

\* an edit that would have applied was declined and nothing changed
C30_Witness ==
    /\ request.op = "reply"
    /\ request.confirm \in {"n", "yes"}
    /\ request.files_to_create = <<>>
    /\ Len(request.files_to_edit) = 1
    /\ files[PathA].exists
    /\ Contains(ReadTranslate(files[PathA].data),
                request.files_to_edit[1].original_snippet)
    /\ file_history # <<>>

====
